---- MODULE Spec2Model ----
(***************************************************************************)
(* Model of the microservice dependency map: the metrics aggregator, the   *)
(* graph builder (roots, adjacency, tree), the column view                 *)
(* (MicroservicesColumns) and the tree navigator                           *)
(* (MicroserviceDependencyNavigator).                                      *)
(*                                                                         *)
(* JavaScript strings are modelled as sequences of one-character strings,  *)
(* so that trimming, case folding, concatenation and splitting are         *)
(* computed and not assumed.                                               *)
(***************************************************************************)
EXTENDS Integers, Sequences, FiniteSets, Bags, TLC

(***************************************************************************)
(* Bounds of the model                                                     *)
(***************************************************************************)
\* series returned by the total and the success query together
MaxSeries == 3
\* promises pending at the same time
MaxInFlight == 2
\* length of the selection path of the column view
MaxPath == 3
\* computeColumns on its own: length of the argument path, value of maxColumns
MaxPathArg == 3
MaxColumnsArg == 4

(***************************************************************************)
(* JavaScript values and string primitives                                 *)
(***************************************************************************)
\* undefined: a missing label, a missing map entry, a hole of an array
Undefined == <<"undefined">>

\* x ?? d
Coalesce(x, d) == IF x = Undefined THEN d ELSE x

\* Map.has(k) / obj[k] !== undefined
MapHas(m, k) == k \in DOMAIN m

\* Map.get(k) / obj[k] of a map of strings: undefined when the key is absent
MapGet(m, k) == IF k \in DOMAIN m THEN m[k] ELSE Undefined

\* Map.get(k) ?? d
MapGetOr(m, k, d) == IF k \in DOMAIN m THEN m[k] ELSE d

\* Map.set(k, v) / obj[k] = v
MapSet(m, k, v) == [x \in (DOMAIN m) \cup {k} |-> IF x = k THEN v ELSE m[x]]

\* Set.add(x) on an insertion-ordered Set
SetAdd(s, x) == IF \E i \in 1..Len(s) : s[i] = x THEN s ELSE Append(s, x)

\* the elements of an array
Elems(s) == {s[i] : i \in 1..Len(s)}

\* String.prototype.toLowerCase, one character
LowerChar(c) ==
  CASE c = "A" -> "a"
    [] c = "B" -> "b"
    [] c = "C" -> "c"
    [] c = "D" -> "d"
    [] c = "G" -> "g"
    [] OTHER -> c

toLowerCase(s) == [i \in 1..Len(s) |-> LowerChar(s[i])]

IsSpace(c) == c = " "

RECURSIVE trimStart(_)
trimStart(s) == IF s # <<>> /\ IsSpace(Head(s)) THEN trimStart(Tail(s)) ELSE s

RECURSIVE trimEnd(_)
trimEnd(s) ==
  IF s # <<>> /\ IsSpace(s[Len(s)]) THEN trimEnd(SubSeq(s, 1, Len(s) - 1)) ELSE s

\* String.prototype.trim
trim(s) == trimEnd(trimStart(s))

\* s.startsWith(sep) at position i (1-based)
MatchAt(s, sep, i) ==
  /\ i + Len(sep) - 1 <= Len(s)
  /\ \A j \in 1..Len(sep) : s[i + j - 1] = sep[j]

\* String.prototype.indexOf as a 1-based position, 0 when absent
RECURSIVE indexOfFrom(_, _, _)
indexOfFrom(s, sep, i) ==
  IF i + Len(sep) - 1 > Len(s) THEN 0
  ELSE IF MatchAt(s, sep, i) THEN i
  ELSE indexOfFrom(s, sep, i + 1)

\* String.prototype.split with a non-empty separator
RECURSIVE split(_, _)
split(s, sep) ==
  LET i == indexOfFrom(s, sep, 1)
  IN IF i = 0 THEN <<s>>
     ELSE <<SubSeq(s, 1, i - 1)>> \o split(SubSeq(s, i + Len(sep), Len(s)), sep)

\* array destructuring / indexing: a[i] (0-based), undefined past the end
At(a, i) == IF i + 1 <= Len(a) THEN a[i + 1] ELSE Undefined

IsDigit(c) == c \in {"0", "1", "2", "3", "4", "5", "6", "7", "8", "9"}

DigitVal(c) ==
  CASE c = "0" -> 0 [] c = "1" -> 1 [] c = "2" -> 2 [] c = "3" -> 3
    [] c = "4" -> 4 [] c = "5" -> 5 [] c = "6" -> 6 [] c = "7" -> 7
    [] c = "8" -> 8 [] c = "9" -> 9

\* Number(str) for a string of decimal digits
RECURSIVE ParseDigits(_, _)
ParseDigits(s, acc) ==
  IF s = <<>> THEN acc ELSE ParseDigits(Tail(s), 10 * acc + DigitVal(Head(s)))

Number(s) == ParseDigits(s, 0)

Max(a, b) == IF a >= b THEN a ELSE b
Min(a, b) == IF a <= b THEN a ELSE b

(***************************************************************************)
(* Ratios: a JavaScript division of two counts, kept exact in lowest terms *)
(***************************************************************************)
RECURSIVE GCD(_, _)
GCD(a, b) == IF b = 0 THEN a ELSE GCD(b, a % b)

\* n / d for d > 0
Ratio(n, d) == LET g == GCD(n, d) IN [num |-> n \div g, den |-> d \div g]

RatZero == [num |-> 0, den |-> 1]
RatOne  == [num |-> 1, den |-> 1]

RatLess(a, b) == a.num * b.den < b.num * a.den
RatLeq(a, b)  == a.num * b.den <= b.num * a.den

\* Math.min(1, r)
RatMin1(r) == IF RatLess(RatOne, r) THEN RatOne ELSE r

(***************************************************************************)
(* Identity and label normaliser                                           *)
(***************************************************************************)
ARROW == <<"-", ">">>
DEFAULT_GROUP == <<"d", "e", "f", "a", "u", "l", "t">>

getSrcGroup(m) == Coalesce(m.executableGroupName, m.sourceServiceGroupName)
getSrcName(m) == Coalesce(m.executableName, m.sourceServiceName)
getSrcVersion(m) == Coalesce(m.executableVersion, m.sourceServiceVersion)

norm(s) == toLowerCase(trim(Coalesce(s, <<>>)))

appendVersion(label, verRaw) ==
  LET ver == trim(Coalesce(verRaw, <<>>))
  IN IF ver # <<>> THEN label \o <<" ", "(", "v">> \o ver \o <<")">> ELSE label

makeSourceId(m) ==
  LET g == norm(getSrcGroup(m))
      n == norm(getSrcName(m))
  IN IF g # <<>> THEN g \o <<":", ":">> \o n ELSE n

\* s.split(/[^\d]+/).filter(Boolean): the maximal digit runs of s
RECURSIVE DigitRuns(_, _)
DigitRuns(s, cur) ==
  IF s = <<>> THEN (IF cur = <<>> THEN <<>> ELSE <<cur>>)
  ELSE IF IsDigit(Head(s)) THEN DigitRuns(Tail(s), Append(cur, Head(s)))
  ELSE (IF cur = <<>> THEN <<>> ELSE <<cur>>) \o DigitRuns(Tail(s), <<>>)

\* String(parseInt(x, 10)) for a digit run x: leading zeros dropped
RECURSIVE ParseIntString(_)
ParseIntString(x) ==
  IF Len(x) > 1 /\ Head(x) = "0" THEN ParseIntString(Tail(x)) ELSE x

\* parts.join(".")
RECURSIVE JoinDot(_)
JoinDot(parts) ==
  IF parts = <<>> THEN <<>>
  ELSE IF Len(parts) = 1 THEN parts[1]
  ELSE parts[1] \o <<".">> \o JoinDot(Tail(parts))

RECURSIVE PadTo3(_)
PadTo3(parts) == IF Len(parts) < 3 THEN PadTo3(Append(parts, <<"0">>)) ELSE parts

normalizeVersion3(raw) ==
  LET s == trim(Coalesce(raw, <<>>))
      runs == DigitRuns(s, <<>>)
      parts == [i \in 1..Len(runs) |-> ParseIntString(runs[i])]
  IN IF s = <<>> THEN <<>>
     ELSE IF Len(parts) = 0 THEN <<>>
     ELSE JoinDot(SubSeq(PadTo3(parts), 1, 3))

makeSourceLabel(m) ==
  LET g == norm(getSrcGroup(m))
      n == norm(getSrcName(m))
      base == IF g # <<>> THEN g \o <<".">> \o n ELSE n
      ver == normalizeVersion3(getSrcVersion(m))
  IN appendVersion(base, ver)

makeTargetId(m) ==
  LET g == norm(DEFAULT_GROUP)
      n == norm(m.targetServiceName)
  IN IF n # <<>> THEN g \o <<":", ":">> \o n ELSE n

makeTargetLabel(m) ==
  LET base == trim(Coalesce(m.targetServiceName, <<>>))
  IN appendVersion(base, trim(Coalesce(m.targetServiceVersion, <<>>)))

\* `${srcId}->${tgtId}`
makeEdgeId(srcId, tgtId) == srcId \o ARROW \o tgtId

(***************************************************************************)
(* Metrics aggregator (fetchGraphFromProm)                                 *)
(***************************************************************************)
EmptyMap == <<>>

EmptyAcc ==
  [nodes |-> <<>>, edges |-> <<>>, nodeLabels |-> EmptyMap, rawByEdge |-> EmptyMap,
   totalMap |-> EmptyMap, okMap |-> EmptyMap, p95Map |-> EmptyMap]

\* !x for a string or undefined
Falsy(x) == x = Undefined \/ x = <<>>

\* String(x ?? "").trim()
RawField(x) == trim(Coalesce(x, <<>>))

EdgeRawOf(metric) ==
  [execGroup |-> RawField(metric.executableGroupName),
   execName  |-> RawField(metric.executableName),
   execVer   |-> RawField(metric.executableVersion),
   tgtGroup  |-> RawField(metric.targetServiceGroupName),
   tgtName   |-> RawField(metric.targetServiceName),
   tgtVer    |-> RawField(metric.targetServiceVersion)]

\* const val = Number(s.value?.[1] ?? 0)
SampleValue(s) == IF s.value = Undefined THEN 0 ELSE Number(s.value)

\* sink.set(edgeId, prev + val)
SinkAdd(sink, edgeId, val) == MapSet(sink, edgeId, MapGetOr(sink, edgeId, 0) + val)

\* mutant of collectSample: every sample overwrites the labels of its two nodes
collectSample_LastLabelWins(s, sinkName, acc) ==
  LET metric == s.metric
      srcId == makeSourceId(metric)
      tgtId == makeTargetId(metric)
      edgeId == makeEdgeId(srcId, tgtId)
      labels1 == MapSet(acc.nodeLabels, srcId, makeSourceLabel(metric))
      labels2 == MapSet(labels1, tgtId, makeTargetLabel(metric))
      base == [acc EXCEPT
                 !.edges = SetAdd(acc.edges, edgeId),
                 !.nodes = SetAdd(SetAdd(acc.nodes, srcId), tgtId),
                 !.nodeLabels = labels2,
                 !.rawByEdge = IF ~MapHas(acc.rawByEdge, edgeId)
                               THEN MapSet(acc.rawByEdge, edgeId, EdgeRawOf(metric))
                               ELSE acc.rawByEdge]
  IN CASE sinkName = "total" ->
            [base EXCEPT !.totalMap = SinkAdd(acc.totalMap, edgeId, SampleValue(s))]
       [] sinkName = "ok" ->
            [base EXCEPT !.okMap = SinkAdd(acc.okMap, edgeId, SampleValue(s))]
       [] sinkName = "p95" ->
            [base EXCEPT !.p95Map = SinkAdd(acc.p95Map, edgeId, SampleValue(s))]

\* the body of the loop of collect for an accepted sample
collectSample(s, sinkName, acc) ==
  LET metric == s.metric
      srcId == makeSourceId(metric)
      tgtId == makeTargetId(metric)
      edgeId == makeEdgeId(srcId, tgtId)
      labels1 == IF Falsy(MapGet(acc.nodeLabels, srcId))
                 THEN MapSet(acc.nodeLabels, srcId, makeSourceLabel(metric))
                 ELSE acc.nodeLabels
      labels2 == IF Falsy(MapGet(labels1, tgtId))
                 THEN MapSet(labels1, tgtId, makeTargetLabel(metric))
                 ELSE labels1
      base == [acc EXCEPT
                 !.edges = SetAdd(acc.edges, edgeId),
                 !.nodes = SetAdd(SetAdd(acc.nodes, srcId), tgtId),
                 !.nodeLabels = labels2,
                 !.rawByEdge = IF ~MapHas(acc.rawByEdge, edgeId)
                               THEN MapSet(acc.rawByEdge, edgeId, EdgeRawOf(metric))
                               ELSE acc.rawByEdge]
  IN CASE sinkName = "total" ->
            [base EXCEPT !.totalMap = SinkAdd(acc.totalMap, edgeId, SampleValue(s))]
       [] sinkName = "ok" ->
            [base EXCEPT !.okMap = SinkAdd(acc.okMap, edgeId, SampleValue(s))]
       [] sinkName = "p95" ->
            [base EXCEPT !.p95Map = SinkAdd(acc.p95Map, edgeId, SampleValue(s))]

RECURSIVE collect(_, _, _)
collect(vec, sinkName, acc) ==
  IF vec = <<>> THEN acc
  ELSE LET s == Head(vec)
       IN IF makeSourceId(s.metric) = <<>> \/ makeTargetId(s.metric) = <<>>
          THEN collect(Tail(vec), sinkName, acc)
          ELSE collect(Tail(vec), sinkName, collectSample(s, sinkName, acc))

\* the three calls of collect
collectAll(totalV, okV, p95V) ==
  collect(p95V, "p95", collect(okV, "ok", collect(totalV, "total", EmptyAcc)))

\* Math.round(total / 60) for a count total >= 0
RoundRps(total) == (total + 30) \div 60

\* mutant of edgeMetrics: a missing success series counts as "all succeeded"
edgeMetrics_MissingOkIsAllOk(acc, id) ==
  LET total == MapGetOr(acc.totalMap, id, 0)
      okSafe == IF MapHas(acc.okMap, id) THEN acc.okMap[id] ELSE total
      errs == Max(0, total - okSafe)
      errorRate == IF total > 0 THEN RatMin1(Ratio(errs, total)) ELSE RatZero
      p95 == IF MapHas(acc.p95Map, id) THEN <<acc.p95Map[id]>> ELSE <<>>
  IN [rps |-> RoundRps(total), errorRate |-> errorRate, p95 |-> p95]

\* the metrics of one edge; p95 is <<>> when the key is absent and <<v>> otherwise
edgeMetrics(acc, id) ==
  LET total == MapGetOr(acc.totalMap, id, 0)
      okSafe == IF MapHas(acc.okMap, id) THEN acc.okMap[id] ELSE 0
      errs == Max(0, total - okSafe)
      errorRate == IF total > 0 THEN RatMin1(Ratio(errs, total)) ELSE RatZero
      p95 == IF MapHas(acc.p95Map, id) THEN <<acc.p95Map[id]>> ELSE <<>>
  IN [rps |-> RoundRps(total), errorRate |-> errorRate, p95 |-> p95]

\* mutant of graphOf: metrics only for the edges of the total query
graphOf_MetricsOfTotals(acc) ==
  [nodeIds |-> acc.nodes,
   nodeLabels |-> acc.nodeLabels,
   edgesSeen |-> acc.edges,
   metricsByEdge |-> [id \in DOMAIN acc.totalMap |-> edgeMetrics(acc, id)],
   rawByEdge |-> acc.rawByEdge]

\* the Graph value built from the accumulators
graphOf(acc) ==
  [nodeIds |-> acc.nodes,
   nodeLabels |-> acc.nodeLabels,
   edgesSeen |-> acc.edges,
   metricsByEdge |-> [id \in Elems(acc.edges) |-> edgeMetrics(acc, id)],
   rawByEdge |-> acc.rawByEdge]

fetchGraphFromProm(totalV, okV, p95V) == graphOf(collectAll(totalV, okV, p95V))

EmptyGraph ==
  [nodeIds |-> <<>>, nodeLabels |-> EmptyMap, edgesSeen |-> <<>>,
   metricsByEdge |-> EmptyMap, rawByEdge |-> EmptyMap]

(***************************************************************************)
(* Aggregator of the diagram view (MicroservicesDiagram.tsx), which        *)
(* stores each series' value under its edge id                             *)
(***************************************************************************)
\* sink.set(edgeId, Number(s.value?.[1] ?? 0))
SinkSet_Diagram(sink, edgeId, val) == MapSet(sink, edgeId, val)

collectSample_Diagram(s, sinkName, acc) ==
  LET m == s.metric
      srcId == makeSourceId(m)
      tgtId == makeTargetId(m)
      edgeId == makeEdgeId(srcId, tgtId)
      labels1 == IF Falsy(MapGet(acc.nodeLabels, srcId))
                 THEN MapSet(acc.nodeLabels, srcId, makeSourceLabel(m))
                 ELSE acc.nodeLabels
      labels2 == IF Falsy(MapGet(labels1, tgtId))
                 THEN MapSet(labels1, tgtId, makeTargetLabel(m))
                 ELSE labels1
      base == [acc EXCEPT
                 !.edges = SetAdd(acc.edges, edgeId),
                 !.nodes = SetAdd(SetAdd(acc.nodes, srcId), tgtId),
                 !.nodeLabels = labels2]
  IN CASE sinkName = "total" ->
            [base EXCEPT !.totalMap = SinkSet_Diagram(acc.totalMap, edgeId, SampleValue(s))]
       [] sinkName = "ok" ->
            [base EXCEPT !.okMap = SinkSet_Diagram(acc.okMap, edgeId, SampleValue(s))]
       [] sinkName = "p95" ->
            [base EXCEPT !.p95Map = SinkSet_Diagram(acc.p95Map, edgeId, SampleValue(s))]

RECURSIVE collect_Diagram(_, _, _)
collect_Diagram(vec, sinkName, acc) ==
  IF vec = <<>> THEN acc
  ELSE LET s == Head(vec)
       IN IF makeSourceId(s.metric) = <<>> \/ makeTargetId(s.metric) = <<>>
          THEN collect_Diagram(Tail(vec), sinkName, acc)
          ELSE collect_Diagram(Tail(vec), sinkName, collectSample_Diagram(s, sinkName, acc))

collectAll_Diagram(totalV, okV, p95V) ==
  collect_Diagram(p95V, "p95",
    collect_Diagram(okV, "ok", collect_Diagram(totalV, "total", EmptyAcc)))


(***************************************************************************)
(* Graph builder: roots, adjacency, worst child, tree                      *)
(***************************************************************************)
\* mutant of computeTargets: collects the source side of every edge id
RECURSIVE computeTargets_SourceSide(_)
computeTargets_SourceSide(edgesSeen) ==
  IF edgesSeen = <<>> THEN {}
  ELSE {At(split(Head(edgesSeen), ARROW), 0)} \cup computeTargets_SourceSide(Tail(edgesSeen))

RECURSIVE computeTargets(_)
computeTargets(edgesSeen) ==
  IF edgesSeen = <<>> THEN {}
  ELSE {At(split(Head(edgesSeen), ARROW), 1)} \cup computeTargets(Tail(edgesSeen))

computeRoots(g) ==
  LET targets == computeTargets(g.edgesSeen)
  IN SelectSeq(g.nodeIds, LAMBDA n : n \notin targets)

\* Array.from(new Set(list))
RECURSIVE Unique(_)
Unique(list) ==
  IF list = <<>> THEN <<>>
  ELSE SetAdd(Unique(SubSeq(list, 1, Len(list) - 1)), list[Len(list)])

\* the first loop of buildAdjacency: push every target on its source's list
RECURSIVE adjacencyLists(_, _)
adjacencyLists(edgesSeen, adj) ==
  IF edgesSeen = <<>> THEN adj
  ELSE LET parts == split(Head(edgesSeen), ARROW)
           src == At(parts, 0)
           tgt == At(parts, 1)
       IN adjacencyLists(Tail(edgesSeen),
                         MapSet(adj, src, Append(MapGetOr(adj, src, <<>>), tgt)))

buildAdjacency(g) ==
  LET adj == adjacencyLists(g.edgesSeen, EmptyMap)
  IN [src \in DOMAIN adj |-> Unique(adj[src])]

\* graph.metricsByEdge[`${parent}->${child}`]?.errorRate ?? 0
edgeErrorRate(metrics, parent, child) ==
  LET e == makeEdgeId(parent, child)
  IN IF MapHas(metrics, e) THEN metrics[e].errorRate ELSE RatZero

\* graph.metricsByEdge[`${parent}->${child}`]?.rps ?? 0
edgeRps(metrics, parent, child) ==
  LET e == makeEdgeId(parent, child)
  IN IF MapHas(metrics, e) THEN metrics[e].rps ELSE 0

RECURSIVE maxErrOver(_, _, _, _)
maxErrOver(children, parent, metrics, maxErr) ==
  IF children = <<>> THEN maxErr
  ELSE LET err == edgeErrorRate(metrics, parent, Head(children))
       IN maxErrOver(Tail(children), parent, metrics,
                     IF MapHas(metrics, makeEdgeId(parent, Head(children)))
                        /\ RatLess(maxErr, err)
                     THEN err ELSE maxErr)

worstChildErrorRate(parent, adj, metrics) ==
  LET children == Unique(MapGetOr(adj, parent, <<>>))
  IN IF Len(children) = 0 THEN RatZero
     ELSE maxErrOver(children, parent, metrics, RatZero)

\* the literals 0.1 and 0.02
Tenth == [num |-> 1, den |-> 10]
Fiftieth == [num |-> 1, den |-> 50]

\* mutant of errorRateToStatus: the thresholds are inclusive
errorRateToStatus_Inclusive(err) ==
  IF ~RatLess(err, Tenth) THEN "down"
  ELSE IF ~RatLess(err, Fiftieth) THEN "degraded"
  ELSE "healthy"

errorRateToStatus(err) ==
  IF RatLess(Tenth, err) THEN "down"
  ELSE IF RatLess(Fiftieth, err) THEN "degraded"
  ELSE "healthy"

\* the primary collation weight of a character (String.prototype.localeCompare):
\* white space, punctuation, symbols, digits, letters
CharRank(c) ==
  CASE c = " " -> 1 [] c = "-" -> 2 [] c = ":" -> 3 [] c = "." -> 4
    [] c = "(" -> 5 [] c = ")" -> 6 [] c = ">" -> 7
    [] c = "0" -> 10 [] c = "1" -> 11 [] c = "2" -> 12 [] c = "3" -> 13
    [] c = "4" -> 14 [] c = "5" -> 15 [] c = "6" -> 16 [] c = "7" -> 17
    [] c = "8" -> 18 [] c = "9" -> 19
    [] c = "a" -> 20 [] c = "A" -> 20 [] c = "b" -> 21 [] c = "B" -> 21
    [] c = "c" -> 22 [] c = "C" -> 22 [] c = "d" -> 23 [] c = "D" -> 23
    [] c = "e" -> 24 [] c = "f" -> 25 [] c = "g" -> 26 [] c = "G" -> 26
    [] c = "l" -> 27 [] c = "t" -> 28 [] c = "u" -> 29 [] c = "v" -> 30
    [] OTHER -> 40

\* la.localeCompare(lb) for lower-cased strings: -1, 0 or 1
RECURSIVE localeCompare(_, _)
localeCompare(la, lb) ==
  IF la = <<>> /\ lb = <<>> THEN 0
  ELSE IF la = <<>> THEN -1
  ELSE IF lb = <<>> THEN 1
  ELSE IF CharRank(Head(la)) < CharRank(Head(lb)) THEN -1
  ELSE IF CharRank(Head(la)) > CharRank(Head(lb)) THEN 1
  ELSE localeCompare(Tail(la), Tail(lb))

\* (graph.nodeLabels[a] ?? a).toLowerCase()
sortLabel(g, a) == toLowerCase(Coalesce(MapGet(g.nodeLabels, a), a))

\* mutant of childCompare: the error rate is compared in ascending order
childCompare_ErrorRateAscending(g, parent, a, b) ==
  LET ea == edgeErrorRate(g.metricsByEdge, parent, a)
      eb == edgeErrorRate(g.metricsByEdge, parent, b)
      ra == edgeRps(g.metricsByEdge, parent, a)
      rb == edgeRps(g.metricsByEdge, parent, b)
  IN IF eb # ea THEN (IF RatLess(ea, eb) THEN -1 ELSE 1)
     ELSE IF rb # ra THEN rb - ra
     ELSE localeCompare(sortLabel(g, a), sortLabel(g, b))

\* the comparator of children.sort: negative when a goes before b
childCompare(g, parent, a, b) ==
  LET ea == edgeErrorRate(g.metricsByEdge, parent, a)
      eb == edgeErrorRate(g.metricsByEdge, parent, b)
      ra == edgeRps(g.metricsByEdge, parent, a)
      rb == edgeRps(g.metricsByEdge, parent, b)
  IN IF eb # ea THEN (IF RatLess(ea, eb) THEN 1 ELSE -1)
     ELSE IF rb # ra THEN rb - ra
     ELSE localeCompare(sortLabel(g, a), sortLabel(g, b))

\* Array.prototype.sort (stable): insert x after the elements it does not precede
RECURSIVE insertSorted(_, _, _, _)
insertSorted(g, parent, sorted, x) ==
  IF sorted = <<>> THEN <<x>>
  ELSE IF childCompare(g, parent, x, Head(sorted)) < 0 THEN <<x>> \o sorted
  ELSE <<Head(sorted)>> \o insertSorted(g, parent, Tail(sorted), x)

RECURSIVE sortChildren(_, _, _)
sortChildren(g, parent, children) ==
  IF children = <<>> THEN <<>>
  ELSE insertSorted(g, parent,
                    sortChildren(g, parent, SubSeq(children, 1, Len(children) - 1)),
                    children[Len(children)])

\* the sorted, de-duplicated children of a node
sortedKids(g, adj, id) == sortChildren(g, id, Unique(MapGetOr(adj, id, <<>>)))

\* one child column of the column view: the de-duplicated, sorted children of parent
columnChildren(g, adj, parent) == sortChildren(g, parent, Unique(MapGetOr(adj, parent, <<>>)))

\* the number of node objects constructed so far: objects are numbered in the
\* order of their construction, and the last one constructed is in the memo
constructed(memo) ==
  IF DOMAIN memo = {} THEN 0
  ELSE CHOOSE r \in {memo[k].ref : k \in DOMAIN memo} :
         \A k \in DOMAIN memo : memo[k].ref <= r

\* buildNode: the memo after node id (reached from parentId) has been built.
\* The memo maps a node id to its node object. ref is the identity of the
\* object; children holds the ids and childRefs the identities of the objects
\* that the calls of buildNode for the kids returned.
RECURSIVE buildNode(_, _, _, _, _)
RECURSIVE buildKids(_, _, _, _, _)

\* mutant of buildNode: the memo answers only for nodes that have children
buildNode_RebuildsLeaves(g, adj, id, parentId, memo) ==
  IF MapHas(memo, id) /\ sortedKids(g, adj, id) # <<>> THEN memo
  ELSE LET name == Coalesce(MapGet(g.nodeLabels, id), id)
           worstErr == worstChildErrorRate(id, adj, g.metricsByEdge)
           status == errorRateToStatus(worstErr)
           rpm == IF ~Falsy(parentId) THEN edgeRps(g.metricsByEdge, parentId, id) ELSE 0
           node == [id |-> id, name |-> name, status |-> status, rpm |-> rpm,
                    children |-> <<>>, ref |-> constructed(memo) + 1, childRefs |-> <<>>]
           kids == sortedKids(g, adj, id)
           built == buildKids(g, adj, id, kids,
                              [memo |-> MapSet(memo, id, node), refs |-> <<>>])
       IN [built.memo EXCEPT ![id].children = kids, ![id].childRefs = built.refs]

buildNode(g, adj, id, parentId, memo) ==
  IF MapHas(memo, id) THEN memo
  ELSE LET name == Coalesce(MapGet(g.nodeLabels, id), id)
           worstErr == worstChildErrorRate(id, adj, g.metricsByEdge)
           status == errorRateToStatus(worstErr)
           rpm == IF ~Falsy(parentId) THEN edgeRps(g.metricsByEdge, parentId, id) ELSE 0
           node == [id |-> id, name |-> name, status |-> status, rpm |-> rpm,
                    children |-> <<>>, ref |-> constructed(memo) + 1, childRefs |-> <<>>]
           kids == sortedKids(g, adj, id)
           built == buildKids(g, adj, id, kids,
                              [memo |-> MapSet(memo, id, node), refs |-> <<>>])
       IN [built.memo EXCEPT ![id].children = kids, ![id].childRefs = built.refs]

\* kids.map((kid) => buildNode(kid, id)): the memo after the calls and the
\* identities of the objects they returned
buildKids(g, adj, id, kids, st) ==
  IF kids = <<>> THEN st
  ELSE LET m == buildNode(g, adj, Head(kids), id, st.memo)
       IN buildKids(g, adj, id, Tail(kids),
                    [memo |-> m, refs |-> Append(st.refs, m[Head(kids)].ref)])

RECURSIVE buildRoots(_, _, _, _)
buildRoots(g, adj, roots, memo) ==
  IF roots = <<>> THEN memo
  ELSE buildRoots(g, adj, Tail(roots), buildNode(g, adj, Head(roots), Undefined, memo))

\* buildTree: the root list and the node objects
buildTree(g) ==
  LET adj == buildAdjacency(g)
      roots == computeRoots(g)
  IN [roots |-> roots, nodes |-> buildRoots(g, adj, roots, EmptyMap)]

EmptyTree == [roots |-> <<>>, nodes |-> EmptyMap]


(***************************************************************************)
(* The metrics backend: the labelled series a query can return             *)
(***************************************************************************)
\* a series labelled with the executable* names
Metric(eg, en, ev, tn, tv) ==
  [executableGroupName |-> eg, executableName |-> en, executableVersion |-> ev,
   sourceServiceGroupName |-> Undefined, sourceServiceName |-> Undefined,
   sourceServiceVersion |-> Undefined, targetServiceGroupName |-> Undefined,
   targetServiceName |-> tn, targetServiceVersion |-> tv]

\* a series labelled with the legacy sourceService* names
LegacyMetric(sg, sn, sv, tn, tv) ==
  [executableGroupName |-> Undefined, executableName |-> Undefined,
   executableVersion |-> Undefined,
   sourceServiceGroupName |-> sg, sourceServiceName |-> sn,
   sourceServiceVersion |-> sv, targetServiceGroupName |-> Undefined,
   targetServiceName |-> tn, targetServiceVersion |-> tv]

\* Default.A v1 -> B v2, value 10
SeriesAB == [metric |-> Metric(<<"D","e","f","a","u","l","t">>, <<"A">>, <<"1">>,
                               <<"B">>, <<"2">>),
             value |-> <<"1", "0">>]
\* the same edge under another casing, spacing and version, value 5
SeriesAB2 == [metric |-> Metric(<<"d","e","f","a","u","l","t">>, <<" ", "a">>,
                                <<"1", ".", "2">>, <<"b", " ">>, Undefined),
              value |-> <<"5">>]
\* Default.B -> C, value 20
SeriesBC == [metric |-> Metric(<<"D","e","f","a","u","l","t">>, <<"B">>, Undefined,
                               <<"C">>, Undefined),
             value |-> <<"2", "0">>]
\* Default.B -> A, value 10: closes a cycle with SeriesAB
SeriesBA == [metric |-> Metric(<<"D","e","f","a","u","l","t">>, <<"B">>, Undefined,
                               <<"A">>, Undefined),
             value |-> <<"1", "0">>]
\* Default.A v1 -> C, value 60
SeriesAC == [metric |-> Metric(<<"D","e","f","a","u","l","t">>, <<"A">>, <<"1">>,
                               <<"C">>, Undefined),
             value |-> <<"6", "0">>]
\* D-a (legacy labels, no group) -> B, value 5
SeriesDB == [metric |-> LegacyMetric(Undefined, <<"D", "-", "a">>, Undefined,
                                     <<"B">>, <<"2">>),
             value |-> <<"5">>]
\* a blank source name: no identity can be formed
SeriesBlank == [metric |-> Metric(Undefined, <<" ">>, Undefined, <<"B">>, Undefined),
                value |-> <<"5">>]

\* a blank source name under the group Default
SeriesNoName == [metric |-> Metric(<<"D","e","f","a","u","l","t">>, <<" ">>, Undefined,
                                   <<"B">>, Undefined),
                 value |-> <<"5">>]

SeriesSet ==
  {SeriesAB, SeriesAB2, SeriesBC, SeriesBA, SeriesAC, SeriesDB, SeriesBlank, SeriesNoName}

\* Default.B -> B, value 20: a service that calls itself
SeriesBB == [metric |-> Metric(<<"D","e","f","a","u","l","t">>, <<"B">>, Undefined,
                               <<"B">>, Undefined),
             value |-> <<"2", "0">>]

\* what the latency-quantile query can return
QuantileVecs == {<<>>, <<SeriesDB, SeriesBB>>}

(***************************************************************************)
(* State                                                                   *)
(***************************************************************************)
VARIABLES
  totalVec,    \* aggregation: the result of the total query
  okVec,       \* aggregation: the result of the success query
  p95Vec,      \* aggregation: the result of the quantile query
  aggPc,       \* aggregation: "input", "graph", "diagram", "tree", "columns",
               \* or "resolved"/"rejected" when a query of the fetch failed
  aggFailed,   \* aggregation: the queries of the fetch that failed
  aggAcc,      \* aggregation: the maps filled by collect
  aggGraph,    \* aggregation: the Graph returned by fetchGraphFromProm
  aggTree,     \* aggregation: the tree built from aggGraph
  aggCols,     \* aggregation: the child column of every node of aggGraph
  app,            \* the mounted view: "columns", "navigator" or "none"
  env,            \* useState: the selected environment
  winIdx,         \* useState: the index of the selected time window
  graph,          \* useState: the current graph snapshot
  roots,          \* useMemo: computeRoots(graph) of the column view
  adj,            \* useMemo: buildAdjacency(graph) of the column view
  selections,     \* useState: the selection path of the column view (node ids)
  detailsEdge,    \* useState: the edge of the details panel, or null
  detailsLoading, \* useState: the loading flag of the details panel
  detailsCache,   \* useState: edge id -> the detail rows fetched for it
  inflight,       \* the pending promises, in the order they were started
  navLoading,     \* useState: the loading flag of the tree navigator's adapter
  navError,       \* useState: the error message of the adapter, or null
  navGraph,       \* useState: the graph of the adapter, <<>> for null and <<g>> for g
  navData,        \* useMemo: buildTree(graph), the data of the tree navigator
  path,           \* useState: the selection path of the tree navigator (node objects)
  lastOp,         \* history: the operation that led to this state and what it saw
  ccRoots,     \* computeColumns: the argument roots
  ccPath,      \* computeColumns: the argument path
  ccMax,       \* computeColumns: the argument maxColumns
  ccCols,      \* computeColumns: the result
  ccPc,        \* computeColumns: "idle", "input" or "done"
  fdFetcher,   \* edge details: "columns" (fetchEdgeErrorDetails), "modal"
               \* (defaultFetchConnectionFromExact) or "none"
  fdRaw,       \* edge details: the raw labels of the edge
  fdExact,     \* edge details: what the backend answers to the exact query
  fdRelaxed,   \* edge details: what the backend answers to the relaxed query
  fdPc,        \* edge details: "idle", "start", "exact", "relaxed", "done" or "failed"
  fdLog,       \* edge details: the queries issued and answered so far, in order
  fdResult,    \* edge details: <<>>, or <<v>> once the fetcher resolved with v
  nvRaw,       \* labels: the raw version label of a series
  nvPc,        \* labels: "idle", "input" or "done"
  nvVer,       \* labels: normalizeVersion3(nvRaw)
  nvSrcLabel,  \* labels: the source label of a series with version nvRaw
  nvTgtLabel   \* labels: the target label of a series with version nvRaw

aggVars == <<totalVec, okVec, p95Vec, aggPc, aggFailed, aggAcc, aggGraph, aggTree, aggCols>>

uiVars == <<app, env, winIdx, graph, roots, adj, selections, detailsEdge, detailsLoading,
            detailsCache, inflight, navLoading, navError, navGraph, navData, path, lastOp>>

ccVars == <<ccRoots, ccPath, ccMax, ccCols, ccPc>>

fdVars == <<fdFetcher, fdRaw, fdExact, fdRelaxed, fdPc, fdLog, fdResult>>

nvVars == <<nvRaw, nvPc, nvVer, nvSrcLabel, nvTgtLabel>>

vars == <<aggVars, uiVars, ccVars, fdVars, nvVars>>

(***************************************************************************)
(* Values shared by the views                                              *)
(***************************************************************************)
\* null
Null == <<"null">>

\* the environments of ENV_OPTIONS and the indices of WINDOW_OPTIONS the user
\* switches between
Envs == {"prod", "qa"}
WinIdxs == {1, 2}

\* a[i] = v on an array (0-based), the array growing with holes when i is past its end
RECURSIVE ArraySet(_, _, _)
ArraySet(a, i, v) ==
  IF i < Len(a) THEN [a EXCEPT ![i + 1] = v]
  ELSE IF i = Len(a) THEN Append(a, v)
  ELSE ArraySet(Append(a, Undefined), i, v)

\* Array.prototype.slice(0, n) for n >= 0
slice0(a, n) == SubSeq(a, 1, Min(n, Len(a)))

\* what the metrics backend can answer to the three queries of fetchGraphFromProm
\* A -> B, A -> C, B -> B: one root A with two children, B its own child
ResponseLoop ==
  [total |-> <<SeriesAB, SeriesAC, SeriesBB>>, ok |-> <<SeriesAB2>>, p95 |-> <<>>]
\* B -> C: one root B
ResponseEdge ==
  [total |-> <<SeriesBC>>, ok |-> <<>>, p95 |-> <<>>]

Responses == {ResponseLoop, ResponseEdge}

\* the graphs fetchGraphFromProm resolves to
ResponseGraphs == {fetchGraphFromProm(r.total, r.ok, r.p95) : r \in Responses}

\* A -> B, B -> B, B -> C: a leaf under the service that calls itself
ResponseDeep ==
  [total |-> <<SeriesAB, SeriesBB, SeriesBC>>, ok |-> <<>>, p95 |-> <<>>]

\* the graphs fetchGraphFromProm of the tree navigator's adapter resolves to
NavResponseGraphs ==
  ResponseGraphs \cup {fetchGraphFromProm(ResponseDeep.total, ResponseDeep.ok, ResponseDeep.p95)}

\* what fetchEdgeErrorDetails can resolve to: the rows of one path
DetailAnswers == {<<[path |-> "p", totalErrors |-> 5]>>}

\* the pending promise of a graph fetch: started by the env/window effect
\* ("effect"), by the refresh button of the column view ("refresh") or by the
\* refresh of the tree navigator's adapter ("nav")
\* history of a graph fetch: newer records that a later graph fetch was started
\* while it was pending, stale that the latest graph fetch resolved before it
GraphFetch(kind) == [kind |-> kind, edge |-> Null, stale |-> FALSE, newer |-> FALSE]

\* the pending promise of fetchEdgeErrorDetails for the edge its closure captured;
\* stale records that the graph was replaced while the promise was pending
DetailsFetch(edge) == [kind |-> "details", edge |-> edge, stale |-> FALSE, newer |-> FALSE]

\* the pending promises are a bag: a promise is started, and any of them settles
StartFetch(pending, f) == pending (+) SetToBag({f})
Settle(pending, f) == pending (-) SetToBag({f})

RECURSIVE StartAll(_, _)
StartAll(pending, fs) ==
  IF fs = <<>> THEN pending ELSE StartAll(StartFetch(pending, Head(fs)), Tail(fs))

\* history: every pending details fetch has seen the graph replaced
MarkStale(pending) ==
  LET seen(f) == IF f.kind = "details" THEN [f EXCEPT !.stale = TRUE] ELSE f
  IN [f \in {seen(x) : x \in BagToSet(pending)} |->
        CopiesIn(f, pending)
        + (IF f.kind = "details" THEN CopiesIn([f EXCEPT !.stale = FALSE], pending) ELSE 0)]

\* the pending promises with F applied to each of them
Reflag(pending, F(_)) ==
  LET RECURSIVE copies(_, _)
      copies(xs, y) ==
        IF xs = {} THEN 0
        ELSE LET x == CHOOSE z \in xs : TRUE
             IN (IF F(x) = y THEN CopiesIn(x, pending) ELSE 0) + copies(xs \ {x}, y)
  IN [y \in {F(x) : x \in BagToSet(pending)} |-> copies(BagToSet(pending), y)]

\* history: every pending graph fetch has seen a later graph fetch start
MarkNewer(pending) ==
  LET seen(f) == IF f.kind = "details" THEN f ELSE [f EXCEPT !.newer = TRUE]
  IN Reflag(pending, seen)

\* history: graph fetch f resolved; if it was the latest one started, every graph
\* fetch still pending has been overtaken by it
MarkOvertaken(pending, f) ==
  LET seen(x) == IF x.kind = "details" \/ f.newer THEN x ELSE [x EXCEPT !.stale = TRUE]
  IN Reflag(pending, seen)

\* a graph fetch of the given kind is started
StartGraphFetch(pending, kind) == StartFetch(MarkNewer(pending), GraphFetch(kind))

\* history record of an operation
Op(name) ==
  [op |-> name, col |-> 0, node |-> Null, kept |-> <<>>, deeper |-> FALSE,
   stale |-> FALSE, changed |-> FALSE, moved |-> FALSE, shown |-> FALSE]

\* history record of a resolved graph fetch f: whether the latest graph fetch had
\* resolved before it
GraphOp(f) == [Op("setGraph") EXCEPT !.stale = f.stale]

\* history record of a click on node in column col when the selection path was
\* before: the selections above the column, and whether there was one below it
ClickOp(before, col, node) ==
  [Op("click") EXCEPT !.col = col, !.node = node, !.kept = SubSeq(before, 1, col),
                      !.deeper = (Len(before) > col + 1)]

\* history record of a resolved details fetch f: whether the graph was replaced
\* while it was pending, whether its resolution changed the cache or the flag,
\* whether the panel had moved to another edge, and whether what the panel shows
\* for its edge (the loading flag, the rows of the edge) changed
DetailsOp(f, changed, moved, shown) ==
  [Op("detailsResolved") EXCEPT !.stale = f.stale, !.changed = changed,
                                !.moved = moved, !.shown = shown]

\* history record of a rejected details fetch f
DetailsRejectedOp(moved, shown) ==
  [Op("detailsRejected") EXCEPT !.moved = moved, !.shown = shown]

(***************************************************************************)
(* Column view (MicroservicesColumns): handlers as functions of the state  *)
(***************************************************************************)
\* mutant of columns: the column of the deepest selection is left out
columns_WithoutLastColumn(g, rootsM, adjM, sel) ==
  <<rootsM>> \o [i \in 1..Max(Len(sel) - 1, 0) |-> columnChildren(g, adjM, sel[i])]

\* the memo columns: [roots] + deps(selections[0]) + deps(selections[1]) + ...
columns(g, rootsM, adjM, sel) ==
  <<rootsM>> \o [i \in 1..Len(sel) |-> columnChildren(g, adjM, sel[i])]

\* mutant of onSelect: the deeper selections are kept
onSelect_KeepsDeeper(sel, colIdx, nodeId) == ArraySet(sel, colIdx, nodeId)

\* onSelect: the next value of selections
onSelect(sel, colIdx, nodeId) == ArraySet(slice0(sel, colIdx), colIdx, nodeId)

\* the tile's onClick: the next value of detailsEdge
clickedEdge(sel, colIdx, id, edge) ==
  IF colIdx >= 1
  THEN LET parent == At(sel, colIdx - 1)
       IN IF ~Falsy(parent) THEN makeEdgeId(parent, id) ELSE edge
  ELSE Null

\* the details effect: whether a run with these values starts a fetch
detailsEffectFetches(edge, cache, g) ==
  /\ edge # Null
  /\ ~MapHas(cache, edge)
  /\ MapHas(g.rawByEdge, edge)

(***************************************************************************)
(* Tree navigator (MicroserviceDependencyNavigator)                        *)
(***************************************************************************)
\* maxColumns={6}, as the adapter mounts the navigator
NAV_MAX_COLUMNS == 6

\* a ServiceNode object: the node id of a tree, with the objects of that tree
NodeObj(nodes, id) == [id |-> id, nodes |-> nodes]

\* parent?.children ?? []
childrenOf(obj) ==
  LET kids == Coalesce(obj.nodes[obj.id].children, <<>>)
  IN [i \in 1..Len(kids) |-> NodeObj(obj.nodes, kids[i])]

\* the root objects of a tree
rootObjects(tree) == [i \in 1..Len(tree.roots) |-> NodeObj(tree.nodes, tree.roots[i])]

\* the loop of computeColumns from index depth on
RECURSIVE computeColumnsLoop(_, _, _, _)
computeColumnsLoop(cols, pth, depth, maxColumns) ==
  IF depth >= Len(pth) THEN cols
  ELSE LET pushed == Append(cols, childrenOf(pth[depth + 1]))
       IN IF Len(pushed) >= maxColumns THEN pushed
          ELSE computeColumnsLoop(pushed, pth, depth + 1, maxColumns)

\* mutant of computeColumns: neither the break nor the final slice
computeColumns_NoLimit(safeRoots, pth, maxColumns) ==
  computeColumnsLoop(<<safeRoots>>, pth, 0, Len(pth) + 2)

computeColumns(safeRoots, pth, maxColumns) ==
  slice0(computeColumnsLoop(<<safeRoots>>, pth, 0, maxColumns), maxColumns)

\* handleClick: the next value of path
handleClick(pth, node, depth) == Append(slice0(pth, depth), node)

\* the test data of runTests: roots r1 (c1, c2 (g1)) and r2; roots2 with the node a
TestNodes ==
  [n \in {"r1", "c1", "c2", "g1", "r2"} |->
     [id |-> n,
      children |-> CASE n = "r1" -> <<"c1", "c2">>
                     [] n = "c2" -> <<"g1">>
                     [] OTHER -> Undefined]]

TestNodes2 == [n \in {"a"} |-> [id |-> n, children |-> <<>>]]

TestRoots == <<NodeObj(TestNodes, "r1"), NodeObj(TestNodes, "r2")>>
TestRoots2 == <<NodeObj(TestNodes2, "a")>>

TestObjects == {NodeObj(TestNodes, n) : n \in DOMAIN TestNodes} \cup {NodeObj(TestNodes2, "a")}

(***************************************************************************)
(* Edge details: fetchEdgeErrorDetails of the column view and              *)
(* defaultFetchConnectionFromExact of the modal                            *)
(***************************************************************************)
\* the outcome of promQuery: the vector of json.data.result, or a thrown error
QueryOk(vec) == [ok |-> TRUE, result |-> vec]
QueryFailed == [ok |-> FALSE, result |-> <<>>]

\* a series of the error queries, labelled with path and status
DetailSeries(pth, status, value) ==
  [metric |-> [path |-> pth, status |-> status], value |-> value]

\* buildLabelMatcherExact: the label pairs whose trimmed value is not empty, in
\* the order of Object.entries
RECURSIVE buildLabelMatcherExact(_)
buildLabelMatcherExact(labels) ==
  IF labels = <<>> THEN <<>>
  ELSE LET vv == trim(Coalesce(Head(labels).v, <<>>))
           rest == buildLabelMatcherExact(Tail(labels))
       IN IF vv = <<>> THEN rest ELSE <<[k |-> Head(labels).k, v |-> vv]>> \o rest

\* exactLabels of fetchEdgeErrorDetails, edgeLabelsExact of the modal
exactLabels(systemName, raw) ==
  << [k |-> "systemName", v |-> systemName],
     [k |-> "executableGroupName", v |-> raw.execGroup],
     [k |-> "executableName", v |-> raw.execName],
     [k |-> "executableVersion", v |-> raw.execVer],
     [k |-> "targetServiceGroupName", v |-> raw.tgtGroup],
     [k |-> "targetServiceName", v |-> raw.tgtName],
     [k |-> "targetServiceVersion", v |-> raw.tgtVer] >>

\* relaxedLabels of fetchEdgeErrorDetails: the version labels are dropped
relaxedLabels(systemName, raw) ==
  << [k |-> "systemName", v |-> systemName],
     [k |-> "executableGroupName", v |-> raw.execGroup],
     [k |-> "executableName", v |-> raw.execName],
     [k |-> "targetServiceGroupName", v |-> raw.tgtGroup],
     [k |-> "targetServiceName", v |-> raw.tgtName] >>

\* the error query over a matcher: sum by (path, status) (...{matcher,status!~"200|204"})
errQuery(matcher) == [q |-> "errors", matcher |-> matcher]

\* onlyZeros(arr)
onlyZeros(arr) == \A i \in 1..Len(arr) : SampleValue(arr[i]) = 0

\* !vec?.length || onlyZeros(vec)
needsFallback(vec) == Len(vec) = 0 \/ onlyZeros(vec)

\* String(x ?? "").trim() || d
textOr(x, d) == LET t == trim(Coalesce(x, <<>>)) IN IF t = <<>> THEN d ELSE t

NO_PATH == <<"(", "b", "r", "a", "k", " ", "p", "a", "t", "h", ")">>
UNKNOWN_STATUS == <<"u", "n", "k", "n", "o", "w", "n">>

\* mutant of addDetail: the total of a row is the value of its last series
addDetail_LastValue(rows, sample) ==
  LET pth == textOr(sample.metric.path, NO_PATH)
      status == textOr(sample.metric.status, UNKNOWN_STATUS)
      val == SampleValue(sample)
      add(cur) == [path |-> pth, totalErrors |-> val,
                   byStatus |-> MapSet(cur.byStatus, status,
                                       MapGetOr(cur.byStatus, status, 0) + val)]
      fresh == [path |-> pth, totalErrors |-> 0, byStatus |-> EmptyMap]
  IN IF \E i \in 1..Len(rows) : rows[i].path = pth
     THEN [i \in 1..Len(rows) |-> IF rows[i].path = pth THEN add(rows[i]) ELSE rows[i]]
     ELSE Append(rows, add(fresh))

\* one turn of the loop over the series: the row of the path is created or updated
addDetail(rows, sample) ==
  LET pth == textOr(sample.metric.path, NO_PATH)
      status == textOr(sample.metric.status, UNKNOWN_STATUS)
      val == SampleValue(sample)
      add(cur) == [path |-> pth, totalErrors |-> cur.totalErrors + val,
                   byStatus |-> MapSet(cur.byStatus, status,
                                       MapGetOr(cur.byStatus, status, 0) + val)]
      fresh == [path |-> pth, totalErrors |-> 0, byStatus |-> EmptyMap]
  IN IF \E i \in 1..Len(rows) : rows[i].path = pth
     THEN [i \in 1..Len(rows) |-> IF rows[i].path = pth THEN add(rows[i]) ELSE rows[i]]
     ELSE Append(rows, add(fresh))

RECURSIVE addDetails(_, _)
addDetails(rows, vec) ==
  IF vec = <<>> THEN rows ELSE addDetails(addDetail(rows, Head(vec)), Tail(vec))

\* list.sort((a, b) => key(b) - key(a)), a stable sort
sortDescBy(list, key(_)) ==
  LET RECURSIVE sorted(_)
      sorted(xs) ==
        IF xs = <<>> THEN <<>>
        ELSE LET front == sorted(SubSeq(xs, 1, Len(xs) - 1))
                 x == xs[Len(xs)]
                 keep == {i \in 1..Len(front) : key(front[i]) >= key(x)}
                 n == IF keep = {} THEN 0 ELSE CHOOSE i \in keep : \A j \in keep : j <= i
             IN SubSeq(front, 1, n) \o <<x>> \o SubSeq(front, n + 1, Len(front))
  IN sorted(list)

\* the rows of a vector: one per path, ordered by totalErrors
detailRows(vec) ==
  LET key(r) == r.totalErrors IN sortDescBy(addDetails(<<>>, vec), key)

\* runOnce of the modal's fetcher: statuses of the by-status vector
statusItems(vec) ==
  [i \in 1..Len(vec) |->
     [code |-> Coalesce(vec[i].metric.status, UNKNOWN_STATUS),
      total |-> SampleValue(vec[i])]]

\* the ConnectionDetails the modal's fetcher returns from the exact answer
connectionOf(vec) ==
  LET key(st) == st.total
  IN [label |-> "HTTP", statuses |-> sortDescBy(statusItems(vec), key),
      paths |-> detailRows(vec)]

\* history: a query was issued / answered
Issued(query) == [ev |-> "issued", query |-> query]
Answered(query) == [ev |-> "answered", query |-> query]

(***************************************************************************)
(* The parts of the state that do not move under a specification           *)
(***************************************************************************)
UiIdle ==
  /\ app = "none"
  /\ env = "prod"
  /\ winIdx = 1
  /\ graph = EmptyGraph
  /\ roots = <<>>
  /\ adj = EmptyMap
  /\ selections = <<>>
  /\ detailsEdge = Null
  /\ detailsLoading = FALSE
  /\ detailsCache = EmptyMap
  /\ inflight = EmptyBag
  /\ navLoading = FALSE
  /\ navError = Null
  /\ navGraph = <<>>
  /\ navData = EmptyTree
  /\ path = <<>>
  /\ lastOp = Op("init")

CcIdle ==
  /\ ccRoots = <<>>
  /\ ccPath = <<>>
  /\ ccMax = 1
  /\ ccCols = <<>>
  /\ ccPc = "idle"

FdIdle ==
  /\ fdFetcher = "none"
  /\ fdRaw = EdgeRawOf(SeriesAB.metric)
  /\ fdExact = QueryOk(<<>>)
  /\ fdRelaxed = QueryOk(<<>>)
  /\ fdPc = "idle"
  /\ fdLog = <<>>
  /\ fdResult = <<>>

NvIdle ==
  /\ nvRaw = Undefined
  /\ nvPc = "idle"
  /\ nvVer = <<>>
  /\ nvSrcLabel = <<>>
  /\ nvTgtLabel = <<>>

AggIdle ==
  /\ totalVec = <<>>
  /\ okVec = <<>>
  /\ p95Vec = <<>>
  /\ aggPc = "idle"
  /\ aggFailed = {}
  /\ aggAcc = EmptyAcc
  /\ aggGraph = EmptyGraph
  /\ aggTree = EmptyTree
  /\ aggCols = EmptyMap

(***************************************************************************)
(* The three queries of fetchGraphFromProm as promises                     *)
(***************************************************************************)
\* promQuery(q): resolves with the result vector or rejects
promQuery(vec, fails) == IF fails THEN QueryFailed ELSE QueryOk(vec)

\* mutant of catchEmpty: the rejection is passed on
catchEmpty_Rethrows(o) == o

\* p.catch(() => [])
catchEmpty(o) == IF o.ok THEN o ELSE QueryOk(<<>>)

\* Promise.all(os): rejects as soon as one member rejects
PromiseAll(os) ==
  IF \A i \in DOMAIN os : os[i].ok
  THEN QueryOk([i \in DOMAIN os |-> os[i].result])
  ELSE QueryFailed

\* the accumulators after the three calls of collect, <<acc>>, or <<>> when the
\* await of Promise.all throws
collectSettled(totalO, okO, p95O) ==
  LET all == PromiseAll(<<totalO, okO, catchEmpty(p95O)>>)
  IN IF all.ok
     THEN <<collectAll(all.result[1], all.result[2], all.result[3])>>
     ELSE <<>>

\* the sets of failing queries that are explored
QueryFailures == {{"p95"}, {"total"}, {"ok", "p95"}}

(***************************************************************************)
(* The aggregation pipeline as a state machine: the backend's answer is    *)
(* assembled series by series, then aggregated, then materialised as tree  *)
(***************************************************************************)
InitAggregate ==
  /\ totalVec = <<>>
  /\ okVec = <<>>
  /\ p95Vec \in QuantileVecs
  /\ aggPc = "input"
  /\ aggFailed = {}
  /\ aggAcc = EmptyAcc
  /\ aggGraph = EmptyGraph
  /\ aggTree = EmptyTree
  /\ aggCols = EmptyMap
  /\ UiIdle
  /\ CcIdle
  /\ FdIdle
  /\ NvIdle

PushTotal(s) ==
  /\ aggPc = "input"
  /\ Len(totalVec) + Len(okVec) < MaxSeries
  /\ totalVec' = Append(totalVec, s)
  /\ UNCHANGED <<okVec, p95Vec, aggPc, aggAcc, aggGraph, aggTree, aggCols, aggFailed, uiVars, ccVars, fdVars, nvVars>>

PushOk(s) ==
  /\ aggPc = "input"
  /\ Len(totalVec) + Len(okVec) < MaxSeries
  /\ okVec' = Append(okVec, s)
  /\ UNCHANGED <<totalVec, p95Vec, aggPc, aggAcc, aggGraph, aggTree, aggCols, aggFailed, uiVars, ccVars, fdVars, nvVars>>

\* fetchGraphFromProm of the column view
Aggregate ==
  /\ aggPc = "input"
  /\ aggPc' = "graph"
  /\ aggAcc' = collectAll(totalVec, okVec, p95Vec)
  /\ aggGraph' = graphOf(aggAcc')
  /\ UNCHANGED <<totalVec, okVec, p95Vec, aggTree, aggCols, aggFailed, uiVars, ccVars, fdVars, nvVars>>

\* fetchGraphFromProm of the diagram view
AggregateDiagram ==
  /\ aggPc = "input"
  /\ aggPc' = "diagram"
  /\ aggAcc' = collectAll_Diagram(totalVec, okVec, p95Vec)
  /\ aggGraph' = graphOf(aggAcc')
  /\ UNCHANGED <<totalVec, okVec, p95Vec, aggTree, aggCols, aggFailed, uiVars, ccVars, fdVars, nvVars>>

\* buildTree(graph)
BuildTree ==
  /\ aggPc = "graph"
  /\ aggPc' = "tree"
  /\ aggTree' = buildTree(aggGraph)
  /\ UNCHANGED <<totalVec, okVec, p95Vec, aggAcc, aggGraph, aggCols, aggFailed, uiVars, ccVars, fdVars, nvVars>>

\* the child column the column view computes for each node that can be selected
RenderColumns ==
  /\ aggPc = "graph"
  /\ aggPc' = "columns"
  /\ aggCols' = [p \in Elems(aggGraph.nodeIds) |->
                   columnChildren(aggGraph, buildAdjacency(aggGraph), p)]
  /\ UNCHANGED <<totalVec, okVec, p95Vec, aggAcc, aggGraph, aggTree, aggFailed, uiVars, ccVars, fdVars, nvVars>>

\* fetchGraphFromProm when the queries named in failed are rejected by the backend
AggregateSettled(failed) ==
  /\ aggPc = "input"
  /\ LET settled == collectSettled(promQuery(totalVec, "total" \in failed),
                                   promQuery(okVec, "ok" \in failed),
                                   promQuery(p95Vec, "p95" \in failed))
     IN IF settled = <<>>
        THEN /\ aggPc' = "rejected"
             /\ UNCHANGED <<aggAcc, aggGraph>>
        ELSE /\ aggPc' = "resolved"
             /\ aggAcc' = settled[1]
             /\ aggGraph' = graphOf(aggAcc')
  /\ aggFailed' = failed
  /\ UNCHANGED <<totalVec, okVec, p95Vec, aggTree, aggCols, uiVars, ccVars, fdVars, nvVars>>

NextAggregate ==
  \/ \E s \in SeriesSet : PushTotal(s)
  \/ \E s \in SeriesSet : PushOk(s)
  \/ Aggregate
  \/ AggregateDiagram
  \/ \E failed \in QueryFailures : AggregateSettled(failed)
  \/ BuildTree
  \/ RenderColumns

SpecAggregate == InitAggregate /\ [][NextAggregate]_vars


(***************************************************************************)
(* The column view (MicroservicesColumns) and the tree navigator           *)
(* (PrometheusBackedNavigator with MicroserviceDependencyNavigator under   *)
(* the tab that shows every root) as state machines. A step is one event   *)
(* handler or one settled promise, with the effects its render runs.       *)
(***************************************************************************)
\* the column view after its first render: the env/window effect has started a fetch
InitColumns ==
  /\ app = "columns"
  /\ env = "prod"
  /\ winIdx = 1
  /\ graph = EmptyGraph
  /\ roots = computeRoots(EmptyGraph)
  /\ adj = buildAdjacency(EmptyGraph)
  /\ selections = <<>>
  /\ detailsEdge = Null
  /\ detailsLoading = FALSE
  /\ detailsCache = EmptyMap
  /\ inflight = StartGraphFetch(EmptyBag, "effect")
  /\ navLoading = FALSE
  /\ navError = Null
  /\ navGraph = <<>>
  /\ navData = EmptyTree
  /\ path = <<>>
  /\ lastOp = Op("init")

\* the tree navigator after its first render: the effect has called refresh()
InitNavigator ==
  /\ app = "navigator"
  /\ env = "prod"
  /\ winIdx = 1
  /\ graph = EmptyGraph
  /\ roots = <<>>
  /\ adj = EmptyMap
  /\ selections = <<>>
  /\ detailsEdge = Null
  /\ detailsLoading = FALSE
  /\ detailsCache = EmptyMap
  /\ inflight = StartGraphFetch(EmptyBag, "nav")
  /\ navLoading = TRUE
  /\ navError = Null
  /\ navGraph = <<>>
  /\ navData = EmptyTree
  /\ path = <<>>
  /\ lastOp = Op("init")

Init ==
  /\ InitColumns \/ InitNavigator
  /\ AggIdle
  /\ CcIdle
  /\ FdIdle
  /\ NvIdle

navVars == <<navLoading, navError, navGraph, navData, path>>
colVars == <<roots, adj, selections, detailsEdge, detailsLoading, detailsCache>>

\* the memo columns of the column view
viewColumns == columns(graph, roots, adj, selections)

\* a click on the tile of node id in column colIdx of the column view
TileClick(colIdx, id) ==
  /\ app = "columns"
  /\ colIdx < Len(viewColumns)
  /\ id \in Elems(viewColumns[colIdx + 1])
  /\ LET next == onSelect(selections, colIdx, id)
         edge == clickedEdge(selections, colIdx, id, detailsEdge)
         starts == edge # detailsEdge /\ detailsEffectFetches(edge, detailsCache, graph)
     IN /\ Len(next) <= MaxPath
        /\ starts => BagCardinality(inflight) < MaxInFlight
        /\ selections' = next
        /\ detailsEdge' = edge
        /\ detailsLoading' = (starts \/ detailsLoading)
        /\ inflight' = IF starts THEN StartFetch(inflight, DetailsFetch(edge)) ELSE inflight
  /\ lastOp' = ClickOp(selections, colIdx, id)
  /\ UNCHANGED <<app, env, winIdx, graph, roots, adj, detailsCache, navVars, aggVars, ccVars, fdVars, nvVars>>

\* the button "back to the roots"
BackToRoots ==
  /\ app = "columns"
  /\ Len(selections) > 0
  /\ selections' = <<>>
  /\ lastOp' = Op("other")
  /\ UNCHANGED <<app, env, winIdx, graph, roots, adj, detailsEdge, detailsLoading,
                 detailsCache, inflight, navVars, aggVars, ccVars, fdVars, nvVars>>

\* what a render with a new env or winIdx starts: the details effect, then the
\* env/window effect
switchFetches ==
  (IF detailsEffectFetches(detailsEdge, detailsCache, graph)
   THEN <<DetailsFetch(detailsEdge)>> ELSE <<>>) \o <<GraphFetch("effect")>>

\* the environment select of the column view
SetEnv(e) ==
  /\ app = "columns"
  /\ e # env
  /\ BagCardinality(inflight) + Len(switchFetches) <= MaxInFlight
  /\ env' = e
  /\ inflight' = StartAll(MarkNewer(inflight), switchFetches)
  /\ detailsLoading' = (Len(switchFetches) = 2 \/ detailsLoading)
  /\ lastOp' = Op("other")
  /\ UNCHANGED <<app, winIdx, graph, roots, adj, selections, detailsEdge, detailsCache,
                 navVars, aggVars, ccVars, fdVars, nvVars>>

\* the window select of the column view
SetWindow(i) ==
  /\ app = "columns"
  /\ i # winIdx
  /\ BagCardinality(inflight) + Len(switchFetches) <= MaxInFlight
  /\ winIdx' = i
  /\ inflight' = StartAll(MarkNewer(inflight), switchFetches)
  /\ detailsLoading' = (Len(switchFetches) = 2 \/ detailsLoading)
  /\ lastOp' = Op("other")
  /\ UNCHANGED <<app, env, graph, roots, adj, selections, detailsEdge, detailsCache,
                 navVars, aggVars, ccVars, fdVars, nvVars>>

\* the refresh button of the column view: refresh() up to its await
ManualRefresh ==
  /\ app = "columns"
  /\ BagCardinality(inflight) < MaxInFlight
  /\ inflight' = StartGraphFetch(inflight, "refresh")
  /\ lastOp' = Op("other")
  /\ UNCHANGED <<app, env, winIdx, graph, colVars, navVars, aggVars, ccVars, fdVars, nvVars>>

\* the fetch of the env/window effect resolves with graph g
ResolveEffectFetch(f, g) ==
  /\ app = "columns"
  /\ BagIn(f, inflight)
  /\ f.kind = "effect"
  /\ graph' = g
  /\ roots' = computeRoots(g)
  /\ adj' = buildAdjacency(g)
  /\ selections' = <<>>
  /\ detailsEdge' = Null
  /\ detailsCache' = EmptyMap
  /\ inflight' = MarkOvertaken(MarkStale(Settle(inflight, f)), f)
  /\ lastOp' = GraphOp(f)
  /\ UNCHANGED <<app, env, winIdx, detailsLoading, navVars, aggVars, ccVars, fdVars, nvVars>>

\* mutant of ResolveRefreshFetch: the new graph also empties the selections
ResolveRefreshFetch_ResetsSelections(f, g) ==
  /\ app = "columns"
  /\ BagIn(f, inflight)
  /\ f.kind = "refresh"
  /\ LET starts == detailsEffectFetches(detailsEdge, detailsCache, g)
         rest == MarkOvertaken(MarkStale(Settle(inflight, f)), f)
     IN /\ graph' = g
        /\ roots' = computeRoots(g)
        /\ adj' = buildAdjacency(g)
        /\ detailsLoading' = (starts \/ detailsLoading)
        /\ inflight' = IF starts THEN StartFetch(rest, DetailsFetch(detailsEdge)) ELSE rest
  /\ selections' = <<>>
  /\ lastOp' = GraphOp(f)
  /\ UNCHANGED <<app, env, winIdx, detailsEdge, detailsCache,
                 navVars, aggVars, ccVars, fdVars, nvVars>>

\* the fetch of refresh() resolves with graph g; the details effect runs again
\* because graph.rawByEdge is a new object
ResolveRefreshFetch(f, g) ==
  /\ app = "columns"
  /\ BagIn(f, inflight)
  /\ f.kind = "refresh"
  /\ LET starts == detailsEffectFetches(detailsEdge, detailsCache, g)
         rest == MarkOvertaken(MarkStale(Settle(inflight, f)), f)
     IN /\ graph' = g
        /\ roots' = computeRoots(g)
        /\ adj' = buildAdjacency(g)
        /\ detailsLoading' = (starts \/ detailsLoading)
        /\ inflight' = IF starts THEN StartFetch(rest, DetailsFetch(detailsEdge)) ELSE rest
  /\ lastOp' = GraphOp(f)
  /\ UNCHANGED <<app, env, winIdx, selections, detailsEdge, detailsCache,
                 navVars, aggVars, ccVars, fdVars, nvVars>>

\* a graph fetch of the column view rejects: the error is logged and alerted
RejectGraphFetch(f) ==
  /\ app = "columns"
  /\ BagIn(f, inflight)
  /\ f.kind \in {"effect", "refresh"}
  /\ inflight' = Settle(inflight, f)
  /\ lastOp' = Op("other")
  /\ UNCHANGED <<app, env, winIdx, graph, colVars, navVars, aggVars, ccVars, fdVars, nvVars>>

\* a details fetch resolves with rows: .then stores them under the captured edge,
\* the details effect runs again because detailsCache changed, .finally clears
\* the loading flag before the effect's setDetailsLoading(true) is applied
ResolveDetails(f, rows) ==
  /\ app = "columns"
  /\ BagIn(f, inflight)
  /\ f.kind = "details"
  /\ LET cache == MapSet(detailsCache, f.edge, rows)
         starts == detailsEffectFetches(detailsEdge, cache, graph)
         rest == Settle(inflight, f)
     IN /\ detailsCache' = cache
        /\ detailsLoading' = starts
        /\ inflight' = IF starts THEN StartFetch(rest, DetailsFetch(detailsEdge)) ELSE rest
  /\ lastOp' = DetailsOp(f, detailsCache' # detailsCache \/ detailsLoading' # detailsLoading,
                          detailsEdge # Null /\ f.edge # detailsEdge,
                          \/ detailsLoading' # detailsLoading
                          \/ (f.edge = detailsEdge /\ detailsCache' # detailsCache))
  /\ UNCHANGED <<app, env, winIdx, graph, roots, adj, selections, detailsEdge,
                 navVars, aggVars, ccVars, fdVars, nvVars>>

\* mutant of the rejection of a details fetch: an empty list of rows is stored
\* under the edge of the fetch
RejectDetails_StoresEmptyRows(f) ==
  /\ app = "columns"
  /\ BagIn(f, inflight)
  /\ f.kind = "details"
  /\ detailsCache' = MapSet(detailsCache, f.edge, <<>>)
  /\ detailsLoading' = FALSE
  /\ inflight' = Settle(inflight, f)
  /\ lastOp' = DetailsRejectedOp(detailsEdge # Null /\ f.edge # detailsEdge, detailsLoading)
  /\ UNCHANGED <<app, env, winIdx, graph, roots, adj, selections, detailsEdge,
                 navVars, aggVars, ccVars, fdVars, nvVars>>

\* a details fetch rejects: .catch logs, .finally clears the loading flag
RejectDetails(f) ==
  /\ app = "columns"
  /\ BagIn(f, inflight)
  /\ f.kind = "details"
  /\ detailsLoading' = FALSE
  /\ inflight' = Settle(inflight, f)
  /\ lastOp' = DetailsRejectedOp(detailsEdge # Null /\ f.edge # detailsEdge, detailsLoading)
  /\ UNCHANGED <<app, env, winIdx, graph, roots, adj, selections, detailsEdge,
                 detailsCache, navVars, aggVars, ccVars, fdVars, nvVars>>

\* e?.message ?? "Nie udało się pobrać danych z Prometheusa."
ErrorMessage == <<"error">>

\* the memo columns of the tree navigator
navColumns == computeColumns(rootObjects(navData), path, NAV_MAX_COLUMNS)

\* a click on the tile of node in column depth of the tree navigator
NavClick(depth, node) ==
  /\ app = "navigator"
  /\ depth < Len(navColumns)
  /\ node \in Elems(navColumns[depth + 1])
  /\ path' = handleClick(path, node, depth)
  /\ lastOp' = ClickOp(path, depth, node)
  /\ UNCHANGED <<app, env, winIdx, graph, colVars, inflight, navLoading, navError,
                 navGraph, navData, aggVars, ccVars, fdVars, nvVars>>

\* refresh() of the adapter up to its await
navRefreshStarts ==
  /\ BagCardinality(inflight) < MaxInFlight
  /\ navLoading' = TRUE
  /\ navError' = Null
  /\ inflight' = StartGraphFetch(inflight, "nav")

\* the refresh button of the adapter
NavRefresh ==
  /\ app = "navigator"
  /\ navRefreshStarts
  /\ lastOp' = Op("other")
  /\ UNCHANGED <<app, env, winIdx, graph, colVars, navGraph, navData, path, aggVars, ccVars, fdVars, nvVars>>

\* the environment select of the adapter: the effect calls refresh()
NavSetEnv(e) ==
  /\ app = "navigator"
  /\ e # env
  /\ env' = e
  /\ navRefreshStarts
  /\ lastOp' = Op("other")
  /\ UNCHANGED <<app, winIdx, graph, colVars, navGraph, navData, path, aggVars, ccVars, fdVars, nvVars>>

\* the window select of the adapter: the effect calls refresh()
NavSetWindow(i) ==
  /\ app = "navigator"
  /\ i # winIdx
  /\ winIdx' = i
  /\ navRefreshStarts
  /\ lastOp' = Op("other")
  /\ UNCHANGED <<app, env, graph, colVars, navGraph, navData, path, aggVars, ccVars, fdVars, nvVars>>

\* the fetch of refresh() resolves with graph g; the navigator is rendered with
\* the tree of the new graph
NavResolve(f, g) ==
  /\ app = "navigator"
  /\ BagIn(f, inflight)
  /\ f.kind = "nav"
  /\ navGraph' = <<g>>
  /\ navData' = buildTree(g)
  /\ navLoading' = FALSE
  /\ inflight' = MarkOvertaken(Settle(inflight, f), f)
  /\ lastOp' = GraphOp(f)
  /\ UNCHANGED <<app, env, winIdx, graph, colVars, navError, path, aggVars, ccVars, fdVars, nvVars>>

\* mutant of the rejection of the adapter's fetch: the graph is dropped
NavReject_DropsGraph(f) ==
  /\ app = "navigator"
  /\ BagIn(f, inflight)
  /\ f.kind = "nav"
  /\ navGraph' = <<>>
  /\ navData' = <<>>
  /\ navError' = ErrorMessage
  /\ navLoading' = FALSE
  /\ inflight' = Settle(inflight, f)
  /\ lastOp' = Op("other")
  /\ UNCHANGED <<app, env, winIdx, graph, colVars, path, aggVars, ccVars, fdVars, nvVars>>

\* the fetch of refresh() rejects
NavReject(f) ==
  /\ app = "navigator"
  /\ BagIn(f, inflight)
  /\ f.kind = "nav"
  /\ navError' = ErrorMessage
  /\ navLoading' = FALSE
  /\ inflight' = Settle(inflight, f)
  /\ lastOp' = Op("other")
  /\ UNCHANGED <<app, env, winIdx, graph, colVars, navGraph, navData, path, aggVars, ccVars, fdVars, nvVars>>

Next ==
  \/ \E colIdx \in 0..(Len(viewColumns) - 1) : \E id \in Elems(viewColumns[colIdx + 1]) :
       TileClick(colIdx, id)
  \/ BackToRoots
  \/ \E e \in Envs : SetEnv(e)
  \/ \E i \in WinIdxs : SetWindow(i)
  \/ ManualRefresh
  \/ \E f \in BagToSet(inflight) : \E g \in ResponseGraphs : ResolveEffectFetch(f, g)
  \/ \E f \in BagToSet(inflight) : \E g \in ResponseGraphs : ResolveRefreshFetch(f, g)
  \/ \E f \in BagToSet(inflight) : RejectGraphFetch(f)
  \/ \E f \in BagToSet(inflight) : \E rows \in DetailAnswers : ResolveDetails(f, rows)
  \/ \E f \in BagToSet(inflight) : RejectDetails(f)
  \/ \E depth \in 0..(Len(navColumns) - 1) : \E node \in Elems(navColumns[depth + 1]) :
       NavClick(depth, node)
  \/ NavRefresh
  \/ \E e \in Envs : NavSetEnv(e)
  \/ \E i \in WinIdxs : NavSetWindow(i)
  \/ \E f \in BagToSet(inflight) : \E g \in NavResponseGraphs : NavResolve(f, g)
  \/ \E f \in BagToSet(inflight) : NavReject(f)

Spec == Init /\ [][Next]_vars

(***************************************************************************)
(* computeColumns on its own: any roots, any path, any limit               *)
(***************************************************************************)
\* the paths of at most n of the test objects
RECURSIVE PathsUpTo(_)
PathsUpTo(n) ==
  IF n = 0 THEN {<<>>}
  ELSE LET shorter == PathsUpTo(n - 1)
       IN shorter \cup {Append(p, o) : p \in shorter, o \in TestObjects}

InitComputeColumns ==
  /\ ccRoots \in {<<>>, TestRoots, TestRoots2}
  /\ ccPath \in PathsUpTo(MaxPathArg)
  /\ ccMax \in 1..MaxColumnsArg
  /\ ccCols = <<>>
  /\ ccPc = "input"
  /\ AggIdle
  /\ UiIdle
  /\ FdIdle
  /\ NvIdle

ApplyComputeColumns ==
  /\ ccPc = "input"
  /\ ccCols' = computeColumns(ccRoots, ccPath, ccMax)
  /\ ccPc' = "done"
  /\ UNCHANGED <<ccRoots, ccPath, ccMax, aggVars, uiVars, fdVars, nvVars>>

NextComputeColumns == ApplyComputeColumns

SpecComputeColumns == InitComputeColumns /\ [][NextComputeColumns]_vars

(***************************************************************************)
(* buildTree on graphs whose error rates lie on and around the thresholds  *)
(***************************************************************************)
\* the series Default.A -> B, Default.A -> C and Default.B -> C with a value
StatusSeriesAB(val) == [SeriesAB EXCEPT !.value = val]
StatusSeriesAC(val) == [SeriesAC EXCEPT !.value = val]
StatusSeriesBC(val) == [SeriesBC EXCEPT !.value = val]

\* the total count of every edge
StatusTotal == <<"1", "0", "0">>

\* the success counts: error rates 0, 0.02, 0.03, 0.10, 0.11 and 1
StatusOks == {<<"1", "0", "0">>, <<"9", "8">>, <<"9", "7">>, <<"9", "0">>, <<"8", "9">>, <<"0">>}

\* what the success query returns for an edge: nothing, or one series
StatusOkAB == {<<>>} \cup {<<StatusSeriesAB(v)>> : v \in StatusOks}
StatusOkAC == {<<>>} \cup {<<StatusSeriesAC(v)>> : v \in StatusOks}
StatusOkBC == {<<>>} \cup {<<StatusSeriesBC(v)>> : v \in StatusOks}

InitStatus ==
  /\ totalVec \in {<<StatusSeriesAB(StatusTotal), StatusSeriesAC(StatusTotal)>>,
                   <<StatusSeriesAB(StatusTotal), StatusSeriesAC(StatusTotal),
                     StatusSeriesBC(StatusTotal)>>}
  /\ okVec \in {ab \o ac \o bc : ab \in StatusOkAB, ac \in StatusOkAC,
                                  bc \in IF Len(totalVec) = 3 THEN StatusOkBC ELSE {<<>>}}
  /\ p95Vec = <<>>
  /\ aggPc = "input"
  /\ aggFailed = {}
  /\ aggAcc = EmptyAcc
  /\ aggGraph = EmptyGraph
  /\ aggTree = EmptyTree
  /\ aggCols = EmptyMap
  /\ UiIdle
  /\ CcIdle
  /\ FdIdle
  /\ NvIdle

NextStatus ==
  \/ Aggregate
  \/ BuildTree

SpecStatus == InitStatus /\ [][NextStatus]_vars

(***************************************************************************)
(* The version part of the labels on its own: any raw version label        *)
(***************************************************************************)
\* the characters of the raw version labels: digits, the separator, a space
\* and a letter
VersionChars == {"0", "1", "2", ".", " ", "v"}

\* length of a raw version label
MaxVersionLen == 3

RECURSIVE VersionsUpTo(_)
VersionsUpTo(n) ==
  IF n = 0 THEN {<<>>}
  ELSE LET shorter == VersionsUpTo(n - 1)
       IN shorter \cup {Append(v, c) : v \in shorter, c \in VersionChars}

\* the raw version labels: every short one, no label at all, and longer ones
\* with four and five digit runs and with leading zeros
RawVersions ==
  VersionsUpTo(MaxVersionLen)
    \cup {Undefined,
          <<"1", ".", "2", ".", "3", ".", "4">>,
          <<"v", "0", "1", "-", "0", "0", "_", "1", "0", " ", "7", ".", "9">>}

\* the series Default.A -> B whose source and target carry the version label v
VersionedMetric(v) == Metric(<<"D","e","f","a","u","l","t">>, <<"A">>, v, <<"B">>, v)

InitVersion ==
  /\ nvRaw \in RawVersions
  /\ nvPc = "input"
  /\ nvVer = <<>>
  /\ nvSrcLabel = <<>>
  /\ nvTgtLabel = <<>>
  /\ AggIdle
  /\ UiIdle
  /\ CcIdle
  /\ FdIdle

ApplyVersion ==
  /\ nvPc = "input"
  /\ nvVer' = normalizeVersion3(nvRaw)
  /\ nvSrcLabel' = makeSourceLabel(VersionedMetric(nvRaw))
  /\ nvTgtLabel' = makeTargetLabel(VersionedMetric(nvRaw))
  /\ nvPc' = "done"
  /\ UNCHANGED <<nvRaw, aggVars, uiVars, ccVars, fdVars>>

NextVersion == ApplyVersion

SpecVersion == InitVersion /\ [][NextVersion]_vars

(***************************************************************************)
(* The two edge-detail fetchers as state machines: a step runs the fetcher *)
(* up to its next await                                                    *)
(***************************************************************************)
\* the environment the details are fetched for
FdEnv == <<"p", "r", "o", "d">>

\* the raw labels of an edge with versions and of one without
DetailRaws == {EdgeRawOf(SeriesAB.metric), EdgeRawOf(SeriesBC.metric)}

\* what the backend can answer to an error query
DetailVecs ==
  { <<>>,
    <<DetailSeries(<<"/", "a">>, <<"5", "0", "0">>, <<"0">>)>>,
    <<DetailSeries(<<"/", "a">>, <<"5", "0", "0">>, <<"5">>)>>,
    <<DetailSeries(<<"/", "a">>, <<"4", "0", "4">>, <<"2">>),
      DetailSeries(Undefined, <<" ">>, <<"7">>),
      DetailSeries(<<"/", "a", " ">>, <<"5", "0", "0">>, <<"6">>)>>,
    <<DetailSeries(<<"/", "b">>, <<"5", "0", "0">>, <<"1">>),
      DetailSeries(<<"/", "a">>, <<"5", "0", "0">>, <<"3">>),
      DetailSeries(<<"/", "a">>, <<"5", "0", "0">>, <<"4">>)>> }

DetailOutcomes == {QueryOk(v) : v \in DetailVecs} \cup {QueryFailed}

exactMatcher == buildLabelMatcherExact(exactLabels(FdEnv, fdRaw))
relaxedMatcher == buildLabelMatcherExact(relaxedLabels(FdEnv, fdRaw))

InitDetails ==
  /\ fdFetcher \in {"columns", "modal"}
  /\ fdRaw \in DetailRaws
  /\ fdExact \in DetailOutcomes
  /\ fdRelaxed \in DetailOutcomes
  /\ fdPc = "start"
  /\ fdLog = <<>>
  /\ fdResult = <<>>
  /\ AggIdle
  /\ UiIdle
  /\ CcIdle
  /\ NvIdle

\* the fetcher is called and runs to its first await: the exact query is issued
IssueExact ==
  /\ fdPc = "start"
  /\ fdPc' = "exact"
  /\ fdLog' = Append(fdLog, Issued(errQuery(exactMatcher)))
  /\ UNCHANGED <<fdFetcher, fdRaw, fdExact, fdRelaxed, fdResult, aggVars, uiVars, ccVars, nvVars>>

\* fetchEdgeErrorDetails after its first await: the relaxed query is issued when
\* the exact answer is empty or all zero, the rows are returned otherwise
ExactResolved ==
  /\ fdFetcher = "columns"
  /\ fdPc = "exact"
  /\ fdExact.ok
  /\ LET answered == Append(fdLog, Answered(errQuery(exactMatcher)))
     IN IF needsFallback(fdExact.result)
        THEN /\ fdPc' = "relaxed"
             /\ fdLog' = Append(answered, Issued(errQuery(relaxedMatcher)))
             /\ fdResult' = fdResult
        ELSE /\ fdPc' = "done"
             /\ fdLog' = answered
             /\ fdResult' = <<detailRows(fdExact.result)>>
  /\ UNCHANGED <<fdFetcher, fdRaw, fdExact, fdRelaxed, aggVars, uiVars, ccVars, nvVars>>

\* defaultFetchConnectionFromExact after runOnce(exactMatcher): the exact answer
\* is returned, whatever it holds
ModalExactResolved ==
  /\ fdFetcher = "modal"
  /\ fdPc = "exact"
  /\ fdExact.ok
  /\ fdPc' = "done"
  /\ fdLog' = Append(fdLog, Answered(errQuery(exactMatcher)))
  /\ fdResult' = <<connectionOf(fdExact.result)>>
  /\ UNCHANGED <<fdFetcher, fdRaw, fdExact, fdRelaxed, aggVars, uiVars, ccVars, nvVars>>

\* promQuery throws in the exact query: the fetcher rejects
ExactRejected ==
  /\ fdPc = "exact"
  /\ ~fdExact.ok
  /\ fdPc' = "failed"
  /\ fdLog' = Append(fdLog, Answered(errQuery(exactMatcher)))
  /\ UNCHANGED <<fdFetcher, fdRaw, fdExact, fdRelaxed, fdResult, aggVars, uiVars, ccVars, nvVars>>

\* fetchEdgeErrorDetails after its second await: the rows of the relaxed answer
RelaxedResolved ==
  /\ fdPc = "relaxed"
  /\ fdRelaxed.ok
  /\ fdPc' = "done"
  /\ fdLog' = Append(fdLog, Answered(errQuery(relaxedMatcher)))
  /\ fdResult' = <<detailRows(fdRelaxed.result)>>
  /\ UNCHANGED <<fdFetcher, fdRaw, fdExact, fdRelaxed, aggVars, uiVars, ccVars, nvVars>>

\* promQuery throws in the relaxed query: the fetcher rejects
RelaxedRejected ==
  /\ fdPc = "relaxed"
  /\ ~fdRelaxed.ok
  /\ fdPc' = "failed"
  /\ fdLog' = Append(fdLog, Answered(errQuery(relaxedMatcher)))
  /\ UNCHANGED <<fdFetcher, fdRaw, fdExact, fdRelaxed, fdResult, aggVars, uiVars, ccVars, nvVars>>

NextDetails ==
  \/ IssueExact
  \/ ExactResolved
  \/ ModalExactResolved
  \/ ExactRejected
  \/ RelaxedResolved
  \/ RelaxedRejected

SpecDetails == InitDetails /\ [][NextDetails]_vars

(***************************************************************************)
(* Properties of the aggregation pipeline                                  *)
(***************************************************************************)
\* the series of a vector that collect accepts
Accepted(vec) ==
  SelectSeq(vec, LAMBDA s : makeSourceId(s.metric) # <<>> /\ makeTargetId(s.metric) # <<>>)

AcceptedAll == Accepted(totalVec) \o Accepted(okVec) \o Accepted(p95Vec)

\* the source/target pairs of a list of series
PairsOf(list) ==
  {<<makeSourceId(list[i].metric), makeTargetId(list[i].metric)>> : i \in 1..Len(list)}

\* the source/target pairs the backend reported
ReportedPairs == PairsOf(AcceptedAll)

SourcesOf(pairs) == {pr[1] : pr \in pairs}
TargetsOf(pairs) == {pr[2] : pr \in pairs}

NoDuplicates(list) == \A i, j \in 1..Len(list) : list[i] = list[j] => i = j

IdA == <<"d","e","f","a","u","l","t",":",":","a">>
IdB == <<"d","e","f","a","u","l","t",":",":","b">>
IdC == <<"d","e","f","a","u","l","t",":",":","c">>
IdD == <<"d","-","a">>

\* C4: computeRoots returns exactly the node ids that are the target of no edge:
\* the roots of the built graph are the reported nodes minus the reported targets,
\* each once; {A->B, B->C} gives {A}, {A->B, D->B} gives {A, D}, the cycle
\* {A->B, B->A} gives no root.
C4_RootsAreNonTargets ==
  aggPc = "tree" =>
    LET pairs == ReportedPairs
        rootSet == Elems(aggTree.roots)
    IN /\ rootSet = (SourcesOf(pairs) \cup TargetsOf(pairs)) \ TargetsOf(pairs)
       /\ NoDuplicates(aggTree.roots)
       /\ pairs = {<<IdA, IdB>>, <<IdB, IdC>>} => rootSet = {IdA}
       /\ pairs = {<<IdA, IdB>>, <<IdD, IdB>>} => rootSet = {IdA, IdD}
       /\ pairs = {<<IdA, IdB>>, <<IdB, IdA>>} => rootSet = {}

\* C4 witness: the chain A->B, B->C has been aggregated and A is its only root
C4_Witness ==
  /\ aggPc = "tree"
  /\ ReportedPairs = {<<IdA, IdB>>, <<IdB, IdC>>}
  /\ aggTree.roots = <<IdA>>

\* the accepted series of vec as <<edge id, value>> pairs
EdgeValues(vec) ==
  LET acc == Accepted(vec)
  IN [i \in 1..Len(acc) |->
        <<makeEdgeId(makeSourceId(acc[i].metric), makeTargetId(acc[i].metric)),
          SampleValue(acc[i])>>]

\* the sum of the values of the pairs of evs that belong to edge e
RECURSIVE SumFor(_, _)
SumFor(evs, e) ==
  IF evs = <<>> THEN 0
  ELSE (IF Head(evs)[1] = e THEN Head(evs)[2] ELSE 0) + SumFor(Tail(evs), e)

HasSeries(evs, e) == \E i \in 1..Len(evs) : evs[i][1] = e

\* C5: when several series of one query vector map to the same edge identity, the
\* edge's count for that vector is the sum of their values, in every aggregator
\* (the column view's and the diagram view's).
C5_EdgeAccumulation ==
  aggPc \in {"graph", "diagram"} =>
    LET totals == EdgeValues(totalVec)
        oks == EdgeValues(okVec)
    IN /\ \A e \in DOMAIN aggAcc.totalMap : aggAcc.totalMap[e] = SumFor(totals, e)
       /\ \A e \in DOMAIN aggAcc.okMap : aggAcc.okMap[e] = SumFor(oks, e)

\* C6: errorRate = max(0, total - success) / total when total > 0 and 0 otherwise,
\* a missing success series counting as success = 0; errorRate lies in [0, 1];
\* total = 20 with no success series gives 1.
C6_ErrorRate ==
  aggPc = "graph" =>
    LET totals == EdgeValues(totalVec)
        oks == EdgeValues(okVec)
    IN \A e \in Elems(aggGraph.edgesSeen) :
         LET total == SumFor(totals, e)
             success == SumFor(oks, e)
             r == aggGraph.metricsByEdge[e].errorRate
         IN /\ r.den > 0 /\ 0 <= r.num /\ r.num <= r.den
            /\ total > 0 => r.num * total = Max(0, total - success) * r.den
            /\ total = 0 => r.num = 0
            /\ (total = 20 /\ ~HasSeries(oks, e)) => r = RatOne

\* C6 witness: an edge with total 20 and no success series has errorRate 1, and
\* another edge has an error rate strictly between 0 and 1
C6_Witness ==
  /\ aggPc = "graph"
  /\ \E e \in Elems(aggGraph.edgesSeen) :
       /\ SumFor(EdgeValues(totalVec), e) = 20
       /\ ~HasSeries(EdgeValues(okVec), e)
       /\ aggGraph.metricsByEdge[e].errorRate = RatOne
  /\ \E e \in Elems(aggGraph.edgesSeen) :
       /\ RatLess(RatZero, aggGraph.metricsByEdge[e].errorRate)
       /\ RatLess(aggGraph.metricsByEdge[e].errorRate, RatOne)

\* a goes before b under parent p by the triple key
KeyOrdered(g, p, a, b) ==
  LET ea == edgeErrorRate(g.metricsByEdge, p, a)
      eb == edgeErrorRate(g.metricsByEdge, p, b)
      ra == edgeRps(g.metricsByEdge, p, a)
      rb == edgeRps(g.metricsByEdge, p, b)
  IN \/ RatLess(eb, ea)
     \/ ea = eb /\ ra > rb
     \/ ea = eb /\ ra = rb /\ localeCompare(sortLabel(g, a), sortLabel(g, b)) <= 0

SiblingsOrdered(g, p, list) ==
  /\ NoDuplicates(list)
  /\ \A i \in 1..(Len(list) - 1) : KeyOrdered(g, p, list[i], list[i + 1])

\* the targets among pairs of source p
ChildrenIn(pairs, p) == {pr[2] : pr \in {q \in pairs : q[1] = p}}

\* C7: in every child column of the column view and in every children list of the
\* materialised tree the siblings are the children of the parent, without
\* duplicates and ordered by (errorRate desc, rps desc, lower-cased label asc).
C7_SiblingOrder ==
  aggPc \in {"columns", "tree"} =>
    LET pairs == ReportedPairs
    IN /\ \A p \in DOMAIN aggCols :
            /\ SiblingsOrdered(aggGraph, p, aggCols[p])
            /\ Elems(aggCols[p]) = ChildrenIn(pairs, p)
       /\ \A p \in DOMAIN aggTree.nodes :
            /\ SiblingsOrdered(aggGraph, p, aggTree.nodes[p].children)
            /\ Elems(aggTree.nodes[p].children) = ChildrenIn(pairs, p)

\* C7 witness (columns): two siblings ordered by error rate against insertion order
C7_Witness ==
  /\ aggPc = "columns"
  /\ \E p \in DOMAIN aggCols :
       /\ Len(aggCols[p]) = 2
       /\ aggCols[p] # Unique(MapGetOr(buildAdjacency(aggGraph), p, <<>>))
       /\ RatLess(edgeErrorRate(aggGraph.metricsByEdge, p, aggCols[p][2]),
                  edgeErrorRate(aggGraph.metricsByEdge, p, aggCols[p][1]))

(***************************************************************************)
(* Properties of the column view and of the tree navigator                 *)
(***************************************************************************)
\* the children and the roots of a graph, read off its edge ids
GraphChildren(g, p) ==
  {t \in Elems(g.nodeIds) : makeEdgeId(p, t) \in Elems(g.edgesSeen)}

GraphRoots(g) ==
  {n \in Elems(g.nodeIds) :
     \A src \in Elems(g.nodeIds) : makeEdgeId(src, n) \notin Elems(g.edgesSeen)}

\* the ids of a list of node objects
IdsOf(objs) == [j \in 1..Len(objs) |-> objs[j].id]

\* the ids of the children of a node object, none when it has no children field
ChildIds(obj) ==
  IF obj.nodes[obj.id].children = Undefined THEN <<>> ELSE obj.nodes[obj.id].children

\* the graph of the tree navigator's adapter, the empty graph while it is null
NavGraphOrEmpty == IF navGraph = <<>> THEN EmptyGraph ELSE navGraph[1]

\* C1: a click on node X shown in column k (0 <= k <= len(P)) of selection path P
\* makes the selection path exactly P[0..k-1] followed by X: every selection at
\* depth >= k is discarded. Column view (onSelect) and tree navigator (handleClick).
C1_ClickTruncates ==
  lastOp.op = "click" =>
    LET current == IF app = "columns" THEN selections ELSE path
    IN /\ Len(lastOp.kept) = lastOp.col
       /\ Len(current) = lastOp.col + 1
       /\ SubSeq(current, 1, lastOp.col) = lastOp.kept
       /\ current[lastOp.col + 1] = lastOp.node

\* C1 witness: with three selections A, B, B the tile C of column 1 was clicked
\* and the selection path is A, C
C1_Witness ==
  /\ app = "columns"
  /\ lastOp.op = "click"
  /\ lastOp.col = 1
  /\ lastOp.deeper
  /\ selections = <<IdA, IdC>>

\* what C2 says of the columns, each count given as a parameter: the column view
\* shows colCount columns and the tree navigator navCount, column 0 is the root
\* list and column i the child list of the (i-1)-th selection
ColumnsAre(colCount, navCount) ==
  /\ app = "columns" =>
       /\ Len(viewColumns) = colCount
       /\ Elems(viewColumns[1]) = GraphRoots(graph)
       /\ \A i \in 1..(Len(viewColumns) - 1) :
            Elems(viewColumns[i + 1]) = GraphChildren(graph, selections[i])
  /\ app = "navigator" =>
       /\ Len(navColumns) = navCount
       /\ Elems(IdsOf(navColumns[1])) = GraphRoots(NavGraphOrEmpty)
       /\ \A i \in 1..(Len(navColumns) - 1) :
            IdsOf(navColumns[i + 1]) = ChildIds(path[i])

\* C2: in every reachable state the number of columns is exactly N+1, N the length
\* of the selection path; column 0 is the root list and column i the child list
\* of selectionPath[i-1]
C2_ColumnCount == ColumnsAre(Len(selections) + 1, Len(path) + 1)

\* C2 as the code has it: N+1 columns in the column view and min(N+1, maxColumns)
\* in the tree navigator; column 0 is the root list and every column i that is
\* shown is the child list of selectionPath[i-1]
C2_ColumnCountWithinLimit ==
  ColumnsAre(Len(selections) + 1, Min(Len(path) + 1, NAV_MAX_COLUMNS))

\* C2 witness: the tree navigator with maxColumns selections shows maxColumns columns
C2_Witness ==
  /\ app = "navigator"
  /\ Len(path) = NAV_MAX_COLUMNS
  /\ Len(navColumns) = NAV_MAX_COLUMNS

\* the first id is a root of g and every other id a child of the one before it
PathValidIn(g, ids) ==
  \A i \in 1..Len(ids) :
    IF i = 1 THEN ids[1] \in GraphRoots(g) ELSE ids[i] \in GraphChildren(g, ids[i - 1])

\* C3: in every reachable state (after clicks, resets to the roots, env/window
\* switches and manual refreshes) selectionPath[0] is a root of the current graph
\* and every selectionPath[i], i >= 1, a child of selectionPath[i-1] in it
C3_SelectionPathValid ==
  /\ app = "columns" => PathValidIn(graph, selections)
  /\ app = "navigator" => PathValidIn(NavGraphOrEmpty, IdsOf(path))

\* C8: computeColumns(roots, path, maxColumns), maxColumns >= 1, returns exactly
\* min(len(path) + 1, maxColumns) columns, column 0 being roots and column i the
\* children of path[i-1] (empty when it has none); empty roots with an empty path
\* give one empty column
C8_ComputeColumns ==
  ccPc = "done" =>
    /\ Len(ccCols) = Min(Len(ccPath) + 1, ccMax)
    /\ ccCols[1] = ccRoots
    /\ \A i \in 2..Len(ccCols) :
         /\ IdsOf(ccCols[i]) = ChildIds(ccPath[i - 1])
         /\ \A j \in 1..Len(ccCols[i]) : ccCols[i][j].nodes = ccPath[i - 1].nodes
    /\ (ccRoots = <<>> /\ ccPath = <<>>) => ccCols = << <<>> >>

\* C8 witness: roots r1, r2 and path r1, c2 under maxColumns = 2 gave two columns
C8_Witness ==
  /\ ccPc = "done"
  /\ ccRoots = TestRoots
  /\ IdsOf(ccPath) = <<"r1", "c2">>
  /\ ccMax = 2
  /\ Len(ccCols) = 2
  /\ IdsOf(ccCols[2]) = <<"c1", "c2">>

\* C9: whenever the graph snapshot is replaced (environment switch, time-window
\* switch or manual refresh) the edge-detail cache is empty immediately afterwards
C9_RebuildEmptiesCache ==
  (app = "columns" /\ lastOp.op = "setGraph") => detailsCache = EmptyMap

\* C10: an edge-detail fetch started under a graph snapshot that was replaced
\* before it resolved is ignored: its resolution adds no entry to the detail
\* cache, changes none, and leaves the loading flag as it was
C10_StaleDetailsIgnored ==
  (lastOp.op = "detailsResolved" /\ lastOp.stale) => ~lastOp.changed

\* C11: when a details fetch started for edge E1 settles after the panel has moved
\* to another edge E2, its outcome is not applied to what the panel shows for E2:
\* neither the loading flag nor the rows of E2 change
C11_StaleFetchSuppressed ==
  (lastOp.op \in {"detailsResolved", "detailsRejected"} /\ lastOp.moved) => ~lastOp.shown

\* C12: a graph fetch that was started before the latest one and resolves after
\* it does not replace the graph of the latest one
C12_StaleGraphIgnored ==
  lastOp.op = "setGraph" => ~lastOp.stale

\* the queries issued so far, in order
IssuedQueries == SelectSeq(fdLog, LAMBDA e : e.ev = "issued")

\* the version labels of the raw edge that are not empty
VersionLabels ==
  {l \in {[k |-> "executableVersion", v |-> fdRaw.execVer],
          [k |-> "targetServiceVersion", v |-> fdRaw.tgtVer]} : l.v # <<>>}

\* the fetcher has settled
FdSettled == fdPc \in {"done", "failed"}

\* C13: the exact query (with the version labels) is issued first; the relaxed
\* query (version labels dropped) is issued if and only if the exact answer is
\* empty or all zero, and only after the exact query was answered; when both
\* answers are empty the fetcher returns an empty list and raises no error
C13_FallbackProtocol ==
  /\ Len(IssuedQueries) <= 2
  /\ Len(IssuedQueries) >= 1 =>
       /\ fdLog[1] = Issued(errQuery(exactMatcher))
       /\ \A l \in VersionLabels : \E i \in 1..Len(exactMatcher) : exactMatcher[i] = l
  /\ Len(IssuedQueries) = 2 =>
       /\ IssuedQueries[2] = Issued(errQuery(relaxedMatcher))
       /\ \A i \in 1..Len(relaxedMatcher) :
            relaxedMatcher[i].k \notin {"executableVersion", "targetServiceVersion"}
       /\ fdLog[2] = Answered(errQuery(exactMatcher))
       /\ fdExact.ok /\ needsFallback(fdExact.result)
  /\ (FdSettled /\ fdExact.ok /\ needsFallback(fdExact.result)) => Len(IssuedQueries) = 2
  /\ (FdSettled /\ fdExact = QueryOk(<<>>) /\ fdRelaxed = QueryOk(<<>>)) =>
       /\ fdPc = "done"
       /\ IF fdFetcher = "columns" THEN fdResult = << <<>> >>
          ELSE fdResult[1].paths = <<>> /\ fdResult[1].statuses = <<>>

(***************************************************************************)
(* C14: when only the latency-quantile query fails, the fetch resolves     *)
(* with the graph it builds from an empty quantile result (same nodes,     *)
(* edges, rps and errorRate, no edge with p95); when the total or the      *)
(* success query fails, the fetch rejects and no graph is produced.       *)
(***************************************************************************)
C14_QuantileFailureIsolated ==
  /\ (aggPc \in {"resolved", "rejected"} /\ aggFailed = {"p95"}) =>
        /\ aggPc = "resolved"
        /\ LET expected == fetchGraphFromProm(totalVec, okVec, <<>>)
           IN /\ aggGraph.nodeIds = expected.nodeIds
              /\ aggGraph.edgesSeen = expected.edgesSeen
              /\ \A id \in Elems(aggGraph.edgesSeen) :
                    /\ aggGraph.metricsByEdge[id].rps = expected.metricsByEdge[id].rps
                    /\ aggGraph.metricsByEdge[id].errorRate =
                         expected.metricsByEdge[id].errorRate
                    /\ aggGraph.metricsByEdge[id].p95 = <<>>
  /\ (aggPc \in {"resolved", "rejected"} /\ aggFailed \cap {"total", "ok"} # {}) =>
        /\ aggPc = "rejected"
        /\ aggGraph = EmptyGraph

\* the quantile query, whose answer would have added a node, fails alone
C14_Witness ==
  /\ aggPc = "resolved"
  /\ aggFailed = {"p95"}
  /\ aggGraph.edgesSeen # <<>>
  /\ fetchGraphFromProm(totalVec, okVec, p95Vec).nodeIds # aggGraph.nodeIds

(***************************************************************************)
(* C15: a sample whose source name or target name is empty after trimming, *)
(* whatever its group, is rejected: the graph is the one aggregated from   *)
(* the other samples alone (no node id, edge id, label, raw-label tuple or *)
(* count comes from it).                                                   *)
(***************************************************************************)
NameBlank(s) ==
  \/ trim(Coalesce(getSrcName(s.metric), <<>>)) = <<>>
  \/ trim(Coalesce(s.metric.targetServiceName, <<>>)) = <<>>

RECURSIVE Named(_)
Named(vec) ==
  IF vec = <<>> THEN <<>>
  ELSE IF NameBlank(Head(vec)) THEN Named(Tail(vec))
  ELSE <<Head(vec)>> \o Named(Tail(vec))

C15_BlankNameRejected ==
  aggPc = "graph" =>
    aggGraph = fetchGraphFromProm(Named(totalVec), Named(okVec), Named(p95Vec))

(***************************************************************************)
(* C16: buildTree returns on every graph, cyclic ones included, and has    *)
(* executed the body of buildNode at most once per node id: the number of  *)
(* node objects constructed is the number of ids in the memo, which is at  *)
(* most the number of node ids of the graph.                               *)
(***************************************************************************)
C16_BuildNodeOncePerId ==
  aggPc = "tree" =>
    /\ constructed(aggTree.nodes) = Cardinality(DOMAIN aggTree.nodes)
    /\ DOMAIN aggTree.nodes \subseteq Elems(aggGraph.nodeIds)
    /\ \A r \in Elems(aggTree.roots) : MapHas(aggTree.nodes, r)

\* a tree was built from a graph with a self-loop and a 2-cycle, both reachable
\* from a root
C16_Witness ==
  /\ aggPc = "tree"
  /\ aggTree.roots # <<>>
  /\ \E a \in DOMAIN aggTree.nodes : a \in Elems(aggTree.nodes[a].children)
  /\ \E a, b \in DOMAIN aggTree.nodes :
       /\ a # b
       /\ b \in Elems(aggTree.nodes[a].children)
       /\ a \in Elems(aggTree.nodes[b].children)

(***************************************************************************)
(* C17: the tree holds one node object per node id, and every entry of a   *)
(* children list is that one object: a node with two parents is the same   *)
(* object, with the same children list, under both.                        *)
(***************************************************************************)
C17_SharedNodeObjects ==
  aggPc = "tree" =>
    /\ \A a, b \in DOMAIN aggTree.nodes :
         aggTree.nodes[a].ref = aggTree.nodes[b].ref => a = b
    /\ \A p \in DOMAIN aggTree.nodes :
         /\ Len(aggTree.nodes[p].childRefs) = Len(aggTree.nodes[p].children)
         /\ \A i \in 1..Len(aggTree.nodes[p].children) :
              aggTree.nodes[p].childRefs[i] =
                aggTree.nodes[aggTree.nodes[p].children[i]].ref

\* a node is in the children lists of two different parents
C17_Witness ==
  /\ aggPc = "tree"
  /\ \E p, q, c \in DOMAIN aggTree.nodes :
       /\ p # q
       /\ c \in Elems(aggTree.nodes[p].children)
       /\ c \in Elems(aggTree.nodes[q].children)

(***************************************************************************)
(* C20: the label of every node of the aggregated graph is the label made  *)
(* from the first accepted sample, in the order total, success, quantile,  *)
(* in which the node's id occurs (as source, else as target); no later     *)
(* sample changes it.                                                      *)
(***************************************************************************)
\* the label the sample gives to node n, Undefined when n is not in the sample
LabelIn(n, s) ==
  IF makeSourceId(s.metric) = n THEN makeSourceLabel(s.metric)
  ELSE IF makeTargetId(s.metric) = n THEN makeTargetLabel(s.metric)
  ELSE Undefined

RECURSIVE FirstLabel(_, _)
FirstLabel(n, samples) ==
  IF samples = <<>> THEN Undefined
  ELSE IF LabelIn(n, Head(samples)) # Undefined THEN LabelIn(n, Head(samples))
  ELSE FirstLabel(n, Tail(samples))

C20_FirstLabelWins ==
  aggPc = "graph" =>
    \A n \in Elems(aggGraph.nodeIds) :
      /\ MapHas(aggGraph.nodeLabels, n)
      /\ aggGraph.nodeLabels[n] = FirstLabel(n, AcceptedAll)

\* a later sample would have labelled a node differently
C20_Witness ==
  /\ aggPc = "graph"
  /\ \E n \in Elems(aggGraph.nodeIds) :
       \E i \in 1..Len(AcceptedAll) :
         LabelIn(n, AcceptedAll[i]) \notin {Undefined, aggGraph.nodeLabels[n]}

LeafClicked ==
  /\ lastOp.op = "click"
  /\ IF app = "columns"
     THEN columnChildren(graph, adj, lastOp.node) = <<>>
     ELSE childrenOf(lastOp.node) = <<>>

\* the clicked node is the deepest element of the selection path
LeafIsDeepest ==
  LET current == IF app = "columns" THEN selections ELSE path
  IN /\ Len(current) = lastOp.col + 1
     /\ current[Len(current)] = lastOp.node

\* the view shows the columns 0..k+1 and column k+1 is empty
TrailingEmptyColumn ==
  LET shown == IF app = "columns" THEN viewColumns ELSE navColumns
  IN /\ Len(shown) = lastOp.col + 2
     /\ shown[lastOp.col + 2] = <<>>

C19_LeafClickTrailingColumn ==
  LeafClicked => (LeafIsDeepest /\ TrailingEmptyColumn)

\* C19 as the code has it: the leaf becomes the deepest element of the
\* selection path; the column view then always shows the empty column k+1; the
\* tree navigator shows it when k+1 < maxColumns, and when the leaf was clicked
\* in the last column the limit allows (k = maxColumns-1) it still shows
\* maxColumns columns, the last of them the column of the leaf.
C19_LeafClickWithinLimit ==
  LeafClicked =>
    /\ LeafIsDeepest
    /\ IF app = "columns" \/ lastOp.col + 1 < NAV_MAX_COLUMNS
       THEN TrailingEmptyColumn
       ELSE /\ Len(navColumns) = NAV_MAX_COLUMNS
            /\ lastOp.col = NAV_MAX_COLUMNS - 1
            /\ lastOp.node \in Elems(navColumns[NAV_MAX_COLUMNS])

\* a leaf was clicked in the last column of the tree navigator
C19_Witness ==
  /\ app = "navigator"
  /\ LeafClicked
  /\ lastOp.col = NAV_MAX_COLUMNS - 1

(***************************************************************************)
(* C21: the rows a detail fetcher returns have one row per distinct path   *)
(* of the series it aggregated; totalErrors of a row is the sum of the     *)
(* values of the series with that path, byStatus[s] the sum over those     *)
(* with that path and status s, so that byStatus adds up to totalErrors;   *)
(* the rows are ordered by totalErrors, non-increasing.                    *)
(***************************************************************************)
\* the vector the fetcher aggregated and the rows it returned
AggregatedVec ==
  IF fdFetcher = "modal" \/ ~needsFallback(fdExact.result)
  THEN fdExact.result
  ELSE fdRelaxed.result

ReturnedRows == IF fdFetcher = "modal" THEN fdResult[1].paths ELSE fdResult[1]

PathOf(s) == textOr(s.metric.path, NO_PATH)
StatusOf(s) == textOr(s.metric.status, UNKNOWN_STATUS)

\* the sum of the values of the series of vec with path pth and a status in sts
RECURSIVE DetailSum(_, _, _)
DetailSum(vec, pth, sts) ==
  IF vec = <<>> THEN 0
  ELSE (IF PathOf(Head(vec)) = pth /\ StatusOf(Head(vec)) \in sts
        THEN SampleValue(Head(vec)) ELSE 0) + DetailSum(Tail(vec), pth, sts)

StatusesOf(vec) == {StatusOf(vec[i]) : i \in 1..Len(vec)}

RECURSIVE SumOver(_, _)
SumOver(f, keys) ==
  IF keys = {} THEN 0
  ELSE LET k == CHOOSE x \in keys : TRUE IN f[k] + SumOver(f, keys \ {k})

C21_DetailRows ==
  fdPc = "done" =>
    LET vec == AggregatedVec
        rows == ReturnedRows
    IN /\ \A i, j \in 1..Len(rows) : rows[i].path = rows[j].path => i = j
       /\ {rows[i].path : i \in 1..Len(rows)} = {PathOf(vec[i]) : i \in 1..Len(vec)}
       /\ \A i \in 1..Len(rows) :
            /\ rows[i].totalErrors = DetailSum(vec, rows[i].path, StatusesOf(vec))
            /\ DOMAIN rows[i].byStatus =
                 {StatusOf(vec[k]) : k \in {n \in 1..Len(vec) : PathOf(vec[n]) = rows[i].path}}
            /\ \A st \in DOMAIN rows[i].byStatus :
                 rows[i].byStatus[st] = DetailSum(vec, rows[i].path, {st})
            /\ SumOver(rows[i].byStatus, DOMAIN rows[i].byStatus) = rows[i].totalErrors
       /\ \A i \in 1..(Len(rows) - 1) : rows[i].totalErrors >= rows[i + 1].totalErrors

\* two series of one path were summed and the sort moved that path to the front
C21_Witness ==
  /\ fdPc = "done"
  /\ Len(ReturnedRows) = 2
  /\ ReturnedRows[1].path = <<"/", "a">>
  /\ ReturnedRows[1].totalErrors = 7
  /\ PathOf(AggregatedVec[1]) = <<"/", "b">>

(***************************************************************************)
(* C22: a failing edge-detail query is recovered locally: the step that    *)
(* settles it leaves the graph, the selection path, the selected edge and  *)
(* every cache entry as they were, adds no entry for the edge, ends with   *)
(* the loading flag false, and the view stays the column view.             *)
(***************************************************************************)
C22_DetailFailureLocal ==
  [][(\E f \in BagToSet(inflight) : RejectDetails(f)) =>
        /\ graph' = graph
        /\ roots' = roots
        /\ adj' = adj
        /\ selections' = selections
        /\ detailsEdge' = detailsEdge
        /\ detailsCache' = detailsCache
        /\ detailsLoading' = FALSE
        /\ app' = app
        /\ env' = env
        /\ winIdx' = winIdx]_vars

\* the fetch of the selected edge has failed while the flag was up: the panel
\* has no rows for the edge and is not loading
C22_Witness ==
  /\ app = "columns"
  /\ lastOp.op = "detailsRejected"
  /\ ~lastOp.moved
  /\ lastOp.shown
  /\ detailsEdge # Null
  /\ ~MapHas(detailsCache, detailsEdge)
  /\ ~detailsLoading
  /\ selections # <<>>

(***************************************************************************)
(* C27: a failed graph refresh changes no view state other than the error  *)
(* report: the step that settles a rejected graph fetch, in the column     *)
(* view (env/window effect, refresh button) and in the adapter of the tree *)
(* navigator, leaves the graph, the selection path, the selected detail    *)
(* edge and the detail cache as they were; so does the press of the        *)
(* refresh button that issued it.                                          *)
(***************************************************************************)
C27_FailedRefreshKeepsView ==
  [][(\/ \E f \in BagToSet(inflight) : RejectGraphFetch(f) \/ NavReject(f)
      \/ ManualRefresh
      \/ NavRefresh) =>
        /\ graph' = graph
        /\ roots' = roots
        /\ adj' = adj
        /\ selections' = selections
        /\ detailsEdge' = detailsEdge
        /\ detailsCache' = detailsCache
        /\ detailsLoading' = detailsLoading
        /\ navGraph' = navGraph
        /\ navData' = navData
        /\ path' = path
        /\ env' = env
        /\ winIdx' = winIdx]_vars

\* a refresh of the adapter has failed after an earlier one had delivered a
\* graph and a tile had been selected: the error is reported, the graph and the
\* path are still there
C27_Witness ==
  /\ app = "navigator"
  /\ navError = ErrorMessage
  /\ ~navLoading
  /\ navGraph # <<>>
  /\ navData # <<>>
  /\ path # <<>>

\* the last two elements of the selection path, as an edge id
SelectedEdge ==
  makeEdgeId(selections[Len(selections) - 1], selections[Len(selections)])

\* C29: the selected detail edge is always consistent with the selection path
\* and the graph: if detailsEdge is non-null then the selection path has at
\* least two elements, detailsEdge is the edge id of its last two elements, and
\* that edge is an edge of the current graph
C29_DetailsEdgeConsistent ==
  (app = "columns" /\ detailsEdge # Null) =>
     /\ Len(selections) >= 2
     /\ detailsEdge = SelectedEdge
     /\ detailsEdge \in Elems(graph.edgesSeen)

\* the pending detail fetches for edge e, with their number of copies
PendingFor(e) ==
  {f \in BagToSet(inflight) : f.kind = "details" /\ f.edge = e}

RECURSIVE CopiesOf(_)
CopiesOf(fs) ==
  IF fs = {} THEN 0
  ELSE LET f == CHOOSE x \in fs : TRUE
       IN CopiesIn(f, inflight) + CopiesOf(fs \ {f})

\* C30: the detail loading flag tracks the in-flight fetches under every
\* interleaving: detailsLoading is true exactly when a detail fetch for the
\* currently selected edge is unresolved, and at most one detail fetch per edge
\* is in flight at a time
C30_LoadingTracksInFlight ==
  app = "columns" =>
     /\ detailsLoading <=> (detailsEdge # Null /\ PendingFor(detailsEdge) # {})
     /\ \A f \in BagToSet(inflight) : f.kind = "details" => CopiesOf(PendingFor(f.edge)) <= 1

(***************************************************************************)
(* C23: version normalization: the result is empty when the raw version    *)
(* has no digit run, and otherwise three numeric parts joined by ".", the  *)
(* first three digit runs padded on the right with 0; a label gets a       *)
(* version suffix only when the result is non-empty.                       *)
(***************************************************************************)
\* the raw version as a string
RawString == Coalesce(nvRaw, <<>>)

\* the digit runs of the raw version, in order
RawRuns == DigitRuns(RawString, <<>>)

\* the labels without a version suffix
SourceBase == <<"d", "e", "f", "a", "u", "l", "t", ".", "a">>
TargetBase == <<"B">>

\* the normalized version is empty, or three numbers: the values of the first
\* three digit runs, 0 where there is none
C23_ThreeParts ==
  nvPc = "done" =>
     /\ RawRuns = <<>> => nvVer = <<>>
     /\ RawRuns # <<>> =>
          LET parts == split(nvVer, <<".">>)
          IN /\ Len(parts) = 3
             /\ \A i \in 1..3 :
                  /\ parts[i] # <<>>
                  /\ \A j \in 1..Len(parts[i]) : IsDigit(parts[i][j])
                  /\ Number(parts[i]) = (IF i <= Len(RawRuns) THEN Number(RawRuns[i]) ELSE 0)
     /\ nvRaw = <<"1">> => nvVer = <<"1", ".", "0", ".", "0">>
     /\ nvRaw = <<"1", ".", "2">> => nvVer = <<"1", ".", "2", ".", "0">>
     /\ nvRaw = <<"1", ".", "2", ".", "3", ".", "4">> => nvVer = <<"1", ".", "2", ".", "3">>
     /\ nvRaw = <<>> => nvVer = <<>>

\* a label has a version suffix only when the normalized version is not empty
C23_SuffixOnlyWhenNormalized ==
  nvPc = "done" =>
     /\ nvSrcLabel # SourceBase => nvVer # <<>>
     /\ nvTgtLabel # TargetBase => nvVer # <<>>

\* C23: the normalized version is empty or three numeric parts, and a label,
\* source or target, gets a version suffix only when it is not empty
C23_VersionNormalization == C23_ThreeParts /\ C23_SuffixOnlyWhenNormalized

\* C24: for every edge of every aggregated graph, requestsPerSecond is the
\* accumulated total count of the edge divided by 60 (rps * 60 = total); an edge
\* with a positive total has a positive requestsPerSecond
C24_RpsIsTotalOver60 ==
  aggPc = "graph" =>
    \A e \in Elems(aggGraph.edgesSeen) :
      LET total == SumFor(EdgeValues(totalVec), e)
          rps == aggGraph.metricsByEdge[e].rps
      IN /\ rps * 60 = total
         /\ total > 0 => rps > 0

\* C26: the throughput of a tree node is that of the edge from its parent: for
\* every parent P and every child C in P's children list of the tree, C.rpm is
\* metricsByEdge[P->C].rps, and every root has rpm 0
C26_RpmOfParentEdge ==
  aggPc = "tree" =>
    /\ \A p \in DOMAIN aggTree.nodes :
         \A c \in Elems(aggTree.nodes[p].children) :
           aggTree.nodes[c].rpm = edgeRps(aggGraph.metricsByEdge, p, c)
    /\ \A r \in Elems(aggTree.roots) : aggTree.nodes[r].rpm = 0

\* the node ids that are an endpoint of an edge of g
EndpointsOf(g) ==
  {n \in Elems(g.nodeIds) :
     \E m \in Elems(g.nodeIds) :
       makeEdgeId(n, m) \in Elems(g.edgesSeen) \/ makeEdgeId(m, n) \in Elems(g.edgesSeen)}

\* C28: every graph returned by the aggregator is well formed: nodeIds and
\* edgesSeen have no duplicates, both endpoints of every edge are in nodeIds,
\* every node id is an endpoint of an edge and has a label, and every edge id
\* has an entry in metricsByEdge and in rawByEdge
C28_GraphWellFormed ==
  aggPc \in {"graph", "resolved"} =>
    /\ NoDuplicates(aggGraph.nodeIds)
    /\ NoDuplicates(aggGraph.edgesSeen)
    /\ \A e \in Elems(aggGraph.edgesSeen) :
         /\ \E n, m \in Elems(aggGraph.nodeIds) : e = makeEdgeId(n, m)
         /\ MapHas(aggGraph.metricsByEdge, e)
         /\ MapHas(aggGraph.rawByEdge, e)
    /\ EndpointsOf(aggGraph) = Elems(aggGraph.nodeIds)
    /\ \A n \in Elems(aggGraph.nodeIds) :
         /\ MapHas(aggGraph.nodeLabels, n)
         /\ aggGraph.nodeLabels[n] # <<>>

\* a graph of three nodes and two edges was returned; one edge was reported by
\* two series and the other by the success query only
C28_Witness ==
  /\ aggPc = "graph"
  /\ Len(aggGraph.nodeIds) = 3
  /\ Len(aggGraph.edgesSeen) = 2
  /\ Len(totalVec) = 2
  /\ Len(okVec) = 1
  /\ \E e \in Elems(aggGraph.edgesSeen) : ~HasSeries(EdgeValues(totalVec), e)

\* the error rates of the edges of g that leave node n
OutgoingRates(g, n) ==
  {g.metricsByEdge[makeEdgeId(n, c)].errorRate : c \in GraphChildren(g, n)}

\* the ratio r is greater than n / d
Exceeds(r, n, d) == r.num * d > n * r.den

\* the ratios r and q are the same number
SameRate(r, q) == r.num * q.den = q.num * r.den

====
